---------------------------- MODULE Spec2Model ----------------------------
(***************************************************************************)
(* A model of the simulation kernel of abstreet: the Sim orchestrator      *)
(* (sim/src/sim.rs) and the Spawner (sim/src/spawn.rs).  One call of       *)
(* Sim::step is walked through its sub-steps by the program counter pc;    *)
(* every other operation (starting a trip, seeding) runs between two steps.   *)
(* The engines whose code is not part of the sources at hand (TripManager, *)
(* Scheduler, the driving, walking, parking and transit engines) are       *)
(* modelled from the specification's description of them.                  *)
(***************************************************************************)
EXTENDS Integers, Sequences, FiniteSets, TLC

(***************************************************************************)
(* Bounds of the model.                                                    *)
(***************************************************************************)
\* number of ticks a run may step through
MaxTime == 3
\* number of pedestrian ids (one per start_trip_* call) a run may hand out
MaxPeds == 2
\* number of car ids a run may hand out
MaxCars == 2

None == -1

(***************************************************************************)
(* The map: an input of the kernel.  Roads 1 and 2 are neighbours, roads 3 *)
(* and 4 are cut off from them.  Road 1 has a driving lane (1), a parking  *)
(* lane (2) with two spots and a sidewalk (3); road 2 has only a sidewalk  *)
(* (4); road 3 a driving lane (6) and a sidewalk (7); road 4 only a        *)
(* sidewalk (8).  Building b stands on road b.                             *)
(***************************************************************************)
Roads == 1..4

Buildings == 1..4

get_next_roads(r) ==
    CASE r = 1 -> <<2>>
      [] r = 2 -> <<1>>
      [] OTHER -> <<>>

\* the lanes of a road, children_forwards then children_backwards
children(r) ==
    CASE r = 1 -> << <<1, "Driving">>, <<2, "Parking">>, <<3, "Sidewalk">> >>
      [] r = 2 -> << <<4, "Sidewalk">> >>
      [] r = 3 -> << <<6, "Driving">>, <<7, "Sidewalk">> >>
      [] OTHER -> << <<8, "Sidewalk">> >>

building_to_road(b) == b

lane_to_road(l) ==
    CASE l \in {1, 2, 3} -> 1
      [] l = 4 -> 2
      [] l \in {6, 7} -> 3
      [] OTHER -> 4

\* Building.front_path.sidewalk
front_path_sidewalk(b) ==
    CASE b = 1 -> 3
      [] b = 2 -> 4
      [] b = 3 -> 7
      [] OTHER -> 8

RECURSIVE first_lane_of(_, _)
first_lane_of(lanes, types) ==
    IF lanes = <<>> THEN None
    ELSE IF Head(lanes)[2] \in types THEN Head(lanes)[1]
    ELSE first_lane_of(Tail(lanes), types)

\* Map::find_closest_lane: a lane of one of the types on the road of lane l
find_closest_lane(l, types) == first_lane_of(children(lane_to_road(l)), types)

\* Map::find_closest_lane_to_bldg: Err (None) when the building's road has none
find_closest_lane_to_bldg(b, types) ==
    first_lane_of(children(building_to_road(b)), types)

\* the free-standing parts of the map: a path never leaves its part
part_of(l) == IF lane_to_road(l) \in {1, 2} THEN 1 ELSE lane_to_road(l)

\* Pathfinder::shortest_distance: Some(path) (TRUE) or None (FALSE)
shortest_distance(req) == part_of(req.start) = part_of(req.end)

\* the spots of the parking lanes, as <<lane, idx>>
AllSpots == {<<2, 0>>, <<2, 1>>}

ParkingLanes == {2}

\* the bus route: its id and its stops (stop s stands on sidewalk StopLane(s))
BusRoute == 1

RouteStops == <<1, 2>>

StopLane(s) == IF s = 1 THEN 3 ELSE 4

(***************************************************************************)
(* Values.                                                                 *)
(***************************************************************************)
NoSpot == <<0, 0>>

\* DrivingGoal
ParkNear(b) == [kind |-> "ParkNear", b |-> b, l |-> None]

Border(l) == [kind |-> "Border", b |-> None, l |-> l]

NoGoal == [kind |-> "none", b |-> None, l |-> None]

\* SidewalkSpot: its variant, what it refers to, and the lane of sidewalk_pos
SidewalkSpot(kind, ref, spot, lane) ==
    [kind |-> kind, ref |-> ref, spot |-> spot, lane |-> lane]

SpotBuilding(b) == SidewalkSpot("Building", b, NoSpot, front_path_sidewalk(b))

SpotParking(spot) ==
    SidewalkSpot("ParkingSpot", None, spot, find_closest_lane(spot[1], {"Sidewalk"}))

SpotBikeRack(lane) == SidewalkSpot("BikeRack", None, NoSpot, lane)

SpotBusStop(s) == SidewalkSpot("BusStop", s, NoSpot, StopLane(s))

NoSidewalkSpot == SidewalkSpot("none", None, NoSpot, None)

\* ParkedCar (its vehicle is a car: generate_car)
ParkedCar(car, spot, owner) == [car |-> car, spot |-> spot, owner |-> owner]

NoParkedCar == ParkedCar(None, NoSpot, None)

\* TripLeg
Leg(kind, spot, parked, car, goal, stop) ==
    [kind |-> kind, spot |-> spot, parked |-> parked, car |-> car,
     goal |-> goal, stop |-> stop]

LegWalk(spot) == Leg("Walk", spot, NoParkedCar, None, NoGoal, None)

LegDrive(parked, goal) == Leg("Drive", NoSidewalkSpot, parked, parked.car, goal, None)

LegBike(bike, goal) == Leg("Bike", NoSidewalkSpot, NoParkedCar, bike, goal, None)

LegRideBus(stop) == Leg("RideBus", NoSidewalkSpot, NoParkedCar, None, NoGoal, stop)

LegDriveFromBorder(car, goal) ==
    Leg("DriveFromBorder", NoSidewalkSpot, NoParkedCar, car, goal, None)

LegServeBusRoute(car) ==
    Leg("ServeBusRoute", NoSidewalkSpot, NoParkedCar, car, NoGoal, None)

\* Command of the Spawner
Command(kind, at, trip, ped, car, vtype, parked, start, walk_goal, start_lane, goal) ==
    [kind |-> kind, at |-> at, trip |-> trip, ped |-> ped, car |-> car,
     vtype |-> vtype, parked |-> parked, start |-> start,
     walk_goal |-> walk_goal, start_lane |-> start_lane, goal |-> goal,
     seq |-> 0]

\* history: the command, marked as the n-th that enqueue_command is called with
stamp(cmd, n) == [cmd EXCEPT !.seq = n]

CmdWalk(at, trip, ped, start, goal) ==
    Command("Walk", at, trip, ped, None, "none", NoParkedCar, start, goal, None, NoGoal)

CmdDrive(at, trip, parked, goal) ==
    Command("Drive", at, trip, None, parked.car, "Car", parked,
            NoSidewalkSpot, NoSidewalkSpot, None, goal)

CmdDriveFromBorder(at, trip, car, vtype, start, goal) ==
    Command("DriveFromBorder", at, trip, None, car, vtype, NoParkedCar,
            NoSidewalkSpot, NoSidewalkSpot, start, goal)

CmdBike(at, trip, start_sidewalk, bike, goal) ==
    Command("Bike", at, trip, None, bike, "Bike", NoParkedCar,
            NoSidewalkSpot, NoSidewalkSpot, start_sidewalk, goal)


(***************************************************************************)
(* Pure functions of the Spawner.                                          *)
(***************************************************************************)
\* the result of a function that aborts (panic!, unwrap of None)
Panic == -2

\* the loop `for next_r in map.get_next_roads(r)` of the lane searches:
\* every road not yet visited is queued and marked, in the map's order
RECURSIVE push_next_roads(_, _, _)
push_next_roads(next, queue, visited) ==
    IF next = <<>> THEN [queue |-> queue, visited |-> visited]
    ELSE IF Head(next) \notin visited
         THEN push_next_roads(Tail(next), Append(queue, Head(next)),
                              visited \cup {Head(next)})
         ELSE push_next_roads(Tail(next), queue, visited)

\* the breadth-first loop of find_driving_lane_near_building and of
\* find_biking_goal_near_building: the first lane of one of the types on the
\* first road that has one; Panic when the queue runs empty
RECURSIVE search_lane(_, _, _)
search_lane(roads_queue, visited, types) ==
    IF roads_queue = <<>> THEN Panic
    ELSE LET r == Head(roads_queue)
             l == first_lane_of(children(r), types)
             n == push_next_roads(get_next_roads(r), Tail(roads_queue), visited)
         IN  IF l # None THEN l ELSE search_lane(n.queue, n.visited, types)

find_driving_lane_near_building(b) ==
    IF find_closest_lane_to_bldg(b, {"Driving"}) # None
    THEN find_closest_lane_to_bldg(b, {"Driving"})
    ELSE search_lane(<<building_to_road(b)>>, {building_to_road(b)}, {"Driving"})

\* the lane of the Position that find_biking_goal_near_building returns
find_biking_goal_near_building(b) ==
    IF find_closest_lane_to_bldg(b, {"Driving", "Biking"}) # None
    THEN find_closest_lane_to_bldg(b, {"Driving", "Biking"})
    ELSE search_lane(<<building_to_road(b)>>, {building_to_road(b)},
                     {"Driving", "Biking"})

\* Option::unwrap
unwrap(x) == IF x = None THEN Panic ELSE x

\* PathRequest: the lanes of its start and end positions and its permissions
PathRequest(start, end, bike, bus) ==
    [start |-> start, end |-> end, can_use_bike_lanes |-> bike,
     can_use_bus_lanes |-> bus]

\* faulty variant: every vehicle entering at a border may use the bus lanes
get_pathfinding_request_bus_lanes_for_all(cmd) ==
    CASE cmd.kind = "Walk" ->
           PathRequest(cmd.start.lane, cmd.walk_goal.lane, FALSE, FALSE)
      [] cmd.kind = "Drive" ->
           PathRequest(unwrap(find_closest_lane(cmd.parked.spot[1], {"Driving"})),
                       IF cmd.goal.kind = "ParkNear"
                       THEN find_driving_lane_near_building(cmd.goal.b)
                       ELSE cmd.goal.l,
                       FALSE, FALSE)
      [] cmd.kind = "Bike" ->
           PathRequest(unwrap(find_closest_lane(cmd.start_lane, {"Driving", "Biking"})),
                       IF cmd.goal.kind = "ParkNear"
                       THEN find_biking_goal_near_building(cmd.goal.b)
                       ELSE cmd.goal.l,
                       TRUE, FALSE)
      [] OTHER ->
           PathRequest(cmd.start_lane,
                       IF cmd.goal.kind = "ParkNear"
                       THEN find_driving_lane_near_building(cmd.goal.b)
                       ELSE cmd.goal.l,
                       cmd.vtype = "Bike", TRUE)

\* Command::get_pathfinding_request
get_pathfinding_request(cmd) ==
    CASE cmd.kind = "Walk" ->
           PathRequest(cmd.start.lane, cmd.walk_goal.lane, FALSE, FALSE)
      [] cmd.kind = "Drive" ->
           PathRequest(unwrap(find_closest_lane(cmd.parked.spot[1], {"Driving"})),
                       IF cmd.goal.kind = "ParkNear"
                       THEN find_driving_lane_near_building(cmd.goal.b)
                       ELSE cmd.goal.l,
                       FALSE, FALSE)
      [] cmd.kind = "Bike" ->
           PathRequest(unwrap(find_closest_lane(cmd.start_lane, {"Driving", "Biking"})),
                       IF cmd.goal.kind = "ParkNear"
                       THEN find_biking_goal_near_building(cmd.goal.b)
                       ELSE cmd.goal.l,
                       TRUE, FALSE)
      [] OTHER ->
           PathRequest(cmd.start_lane,
                       IF cmd.goal.kind = "ParkNear"
                       THEN find_driving_lane_near_building(cmd.goal.b)
                       ELSE cmd.goal.l,
                       cmd.vtype = "Bike", cmd.vtype = "Bus")

\* get_pathfinding_request aborted instead of returning
request_panics(req) == req.start = Panic \/ req.end = Panic

\* collect() of an indexed parallel iterator: the worker of the request
\* finished[k] is the k-th to finish and puts its result in the place of its
\* request
RECURSIVE collect(_, _, _)
collect(paths, requests, finished) ==
    IF finished = <<>> THEN paths
    ELSE collect([paths EXCEPT ![Head(finished)] =
                                   shortest_distance(requests[Head(finished)])],
                 requests, Tail(finished))

\* faulty variant: the results are in the order in which the workers finish
calculate_paths_as_finished(requests, finished) ==
    [k \in 1..Len(requests) |-> shortest_distance(requests[finished[k]])]

\* calculate_paths: requests.par_iter().map(shortest_distance).collect(),
\* whose workers finish in the order `finished`
calculate_paths(requests, finished) ==
    collect([i \in 1..Len(requests) |-> FALSE], requests, finished)

\* Vec::sort_by(|a, b| b.at().cmp(&a.at())): a stable sort, descending by at.
\* Each element is put behind every element placed before it whose at is not
\* smaller.
RECURSIVE insert_sorted(_, _)
insert_sorted(sorted, cmd) ==
    IF sorted = <<>> THEN <<cmd>>
    ELSE IF Head(sorted).at >= cmd.at
         THEN <<Head(sorted)>> \o insert_sorted(Tail(sorted), cmd)
         ELSE <<cmd>> \o sorted

RECURSIVE sort_by_at_desc(_)
sort_by_at_desc(v) ==
    IF v = <<>> THEN <<>>
    ELSE insert_sorted(sort_by_at_desc(SubSeq(v, 1, Len(v) - 1)), v[Len(v)])

\* faulty variant: the command is pushed and the vector is not sorted
enqueue_command_unsorted(cmds, cmd) == Append(cmds, cmd)

\* Spawner::enqueue_command
enqueue_command(cmds, cmd) == sort_by_at_desc(Append(cmds, cmd))

\* faulty variant: the commands of this tick are read off the end of the
\* vector and left in it
RECURSIVE pop_commands_left_queued(_, _)
pop_commands_left_queued(cmds, now) ==
    IF cmds # <<>> /\ cmds[Len(cmds)].at = now
    THEN LET r == pop_commands_left_queued(SubSeq(cmds, 1, Len(cmds) - 1), now)
         IN  [popped |-> <<cmds[Len(cmds)]>> \o r.popped,
              rest |-> Append(r.rest, cmds[Len(cmds)])]
    ELSE [popped |-> <<>>, rest |-> cmds]

\* the loop of Spawner::step that pops the commands of this tick off the end
RECURSIVE pop_commands(_, _)
pop_commands(cmds, now) ==
    IF cmds # <<>> /\ cmds[Len(cmds)].at = now
    THEN LET r == pop_commands(SubSeq(cmds, 1, Len(cmds) - 1), now)
         IN  [popped |-> <<cmds[Len(cmds)]>> \o r.popped, rest |-> r.rest]
    ELSE [popped |-> <<>>, rest |-> cmds]

\* Command of the Scheduler: SpawnCar(at, CreateCar) or SpawnPed(at, CreatePedestrian)
SchedCommand(kind, at, trip, agent, vtype, parked, router, walk_goal, end_lane) ==
    [kind |-> kind, at |-> at, trip |-> trip, agent |-> agent, vtype |-> vtype,
     parked |-> parked, router |-> router, walk_goal |-> walk_goal,
     end_lane |-> end_lane]

\* Scheduler::enqueue_command
scheduler_enqueue(sched, c) == Append(sched, c)

\* faulty variant: every command is forwarded as a SpawnPed of its pedestrian
spawn_for_always_ped(cmd, req, now) ==
    SchedCommand("SpawnPed", now, cmd.trip, cmd.ped, "none", NoParkedCar,
                 "none", cmd.walk_goal, req.end)

\* what Spawner::step forwards for a command whose path was found
spawn_for(cmd, req, now) ==
    CASE cmd.kind = "Drive" ->
           SchedCommand("SpawnCar", now, cmd.trip, cmd.parked.car, "Car", cmd.parked,
                        IF cmd.goal.kind = "ParkNear" THEN "park" ELSE "border",
                        NoSidewalkSpot, req.end)
      [] cmd.kind = "DriveFromBorder" ->
           SchedCommand("SpawnCar", now, cmd.trip, cmd.car, cmd.vtype, NoParkedCar,
                        IF cmd.goal.kind = "ParkNear"
                        THEN (IF cmd.vtype = "Bike" THEN "bike" ELSE "park")
                        ELSE "border",
                        NoSidewalkSpot, req.end)
      [] cmd.kind = "Bike" ->
           SchedCommand("SpawnCar", now, cmd.trip, cmd.car, cmd.vtype, NoParkedCar,
                        IF cmd.goal.kind = "ParkNear" THEN "bike" ELSE "border",
                        NoSidewalkSpot, req.end)
      [] OTHER ->
           SchedCommand("SpawnPed", now, cmd.trip, cmd.ped, "none", NoParkedCar,
                        "none", cmd.walk_goal, req.end)

\* faulty variant: a command is forwarded whether or not its path was found
RECURSIVE forward_spawns_ignoring_paths(_, _, _, _, _)
forward_spawns_ignoring_paths(sched, cmds, requests, paths, now) ==
    IF cmds = <<>> THEN sched
    ELSE forward_spawns_ignoring_paths(
           scheduler_enqueue(sched, spawn_for(Head(cmds), Head(requests), now)),
           Tail(cmds), Tail(requests), Tail(paths), now)

\* the loop `for (cmd, (req, maybe_path)) in ...` of Spawner::step
RECURSIVE forward_spawns(_, _, _, _, _)
forward_spawns(sched, cmds, requests, paths, now) ==
    IF cmds = <<>> THEN sched
    ELSE forward_spawns(
           IF Head(paths)
           THEN scheduler_enqueue(sched, spawn_for(Head(cmds), Head(requests), now))
           ELSE sched,
           Tail(cmds), Tail(requests), Tail(paths), now)

(***************************************************************************)
(* TripManager: the trips, in the order of their TripIDs (trip t is        *)
(* trips[t + 1]), and the trip of every active agent.                      *)
(***************************************************************************)
Trip(started_at, maybe_ped, legs) ==
    [started_at |-> started_at, ped |-> maybe_ped, legs |-> legs,
     finished_at |-> None]

Car(id) == <<"Car", id>>

Ped(id) == <<"Ped", id>>

\* TripManager::new_trip: the trips with the new one; its TripID is Len(ts)
new_trip(ts, now, maybe_ped, legs) == Append(ts, Trip(now, maybe_ped, legs))

\* TripManager::agent_starting_trip_leg
agent_starting_trip_leg(atm, agent, trip) ==
    {e \in atm : e[1] # agent} \cup {<<agent, trip>>}

\* the trip of an active agent, None if it has none
agent_to_trip(atm, agent) ==
    IF \E e \in atm : e[1] = agent
    THEN (CHOOSE e \in atm : e[1] = agent)[2]
    ELSE None

uses_car(trip, car) ==
    \E i \in 1..Len(trip.legs) :
        trip.legs[i].kind \in {"Drive", "DriveFromBorder", "Bike", "ServeBusRoute"}
        /\ trip.legs[i].car = car

\* TripManager::get_trip_using_car: a trip with a leg left that uses the car
get_trip_using_car(ts, car) ==
    IF \E i \in 1..Len(ts) : uses_car(ts[i], car)
    THEN (CHOOSE i \in 1..Len(ts) :
            uses_car(ts[i], car) /\ \A j \in 1..(i - 1) : ~uses_car(ts[j], car)) - 1
    ELSE None

\* a leg-completion transition of trip t: the leg in front is dropped
leg_done(ts, t) == [ts EXCEPT ![t + 1].legs = Tail(@)]

\* a final transition of trip t (car_reached_border,
\* ped_reached_building_or_border): the last leg is dropped, the trip finished
trip_done(ts, t, now) ==
    [ts EXCEPT ![t + 1].legs = Tail(@), ![t + 1].finished_at = now]

\* the agent is no longer active
agent_done(atm, agent) == {e \in atm : e[1] # agent}

(***************************************************************************)
(* The state of a Sim.                                                     *)
(***************************************************************************)
VARIABLES
    time,              \* Sim.time
    pc,                \* the sub-step of inner_step to run next; "idle" between steps
    panic,             \* "none", or what aborted the program
    commands,          \* Spawner.commands
    enqueued,          \* history: the number of calls of Spawner::enqueue_command
    car_id_counter,    \* Spawner.car_id_counter
    ped_id_counter,    \* Spawner.ped_id_counter
    scheduler,         \* the commands of the Scheduler
    trips,             \* TripManager.trips
    active_trip_mode,  \* TripManager.active_trip_mode: <<agent, trip>>
    parked_cars,       \* the inventory of ParkingSimState: a set of ParkedCar
    driving,           \* the cars of DrivingSimState
    walking,           \* the pedestrians of WalkingSimState
    transit,           \* TransitSimState: the buses and the riders
    outcome,           \* what the driving and walking steps of this tick returned
    trace,             \* history: the sub-steps the current (or last) step has run
    last,              \* history: the last operation called, when, and what it answered
    popped,            \* history: what the last Spawner::step popped and computed
    car_ids,           \* history: every CarID handed out, in order
    ped_ids,           \* history: every PedestrianID handed out, in order
    driver,            \* the caller of the Sim: the operations its run uses
    savestate_every,   \* Sim.savestate_every: None or a number of ticks
    run_name,          \* Sim.run_name
    files,             \* the savestates on disk: run name, tick and Sim written
    loaded,            \* history: the savestate this Sim was loaded from
    events,            \* the events of the current step; between steps, those returned
    view,              \* the WorldView of inner_step: what the engines wrote into it
    search             \* the locals of a breadth-first search over the roads

vars ==
    <<time, pc, panic, commands, enqueued, car_id_counter, ped_id_counter, scheduler, trips,
      active_trip_mode, parked_cars, driving, walking, transit, outcome, trace,
      last, popped, car_ids, ped_ids, driver, savestate_every, run_name, files,
      loaded, events, view, search>>

spawner_vars == <<commands, enqueued, car_id_counter, ped_id_counter>>

engine_vars == <<scheduler, parked_cars, driving, walking, transit, outcome>>

trip_vars == <<trips, active_trip_mode>>

step_vars == <<time, pc, panic, trace, popped>>

\* what Sim::new is given and no operation of a Sim assigns
setup_vars == <<driver, savestate_every, run_name>>

disk_vars == <<files, loaded>>

\* struct Sim: the fields written to a savestate.  The map is fixed, so
\* map_name and edits_name are the same in every Sim.
Sim ==
    [time |-> time,
     run_name |-> run_name,
     savestate_every |-> savestate_every,
     spawner |-> [commands |-> commands, car_id_counter |-> car_id_counter,
                  ped_id_counter |-> ped_id_counter],
     scheduler |-> scheduler,
     driving_state |-> driving,
     parking_state |-> parked_cars,
     walking_state |-> walking,
     transit_state |-> transit,
     trips_state |-> [trips |-> trips, active_trip_mode |-> active_trip_mode]]

\* #[derivative(PartialEq)] of Sim: run_name (and rng) are ignored
sim_eq(a, b) == [a EXCEPT !.run_name = ""] = [b EXCEPT !.run_name = ""]

\* a savestate ../data/save/{map}_{edits}/{run_name}/{tick}.  The other
\* fields are history: how many commands the saved Sim had enqueued; a step is
\* running from the state the file holds; the first such step ended in the
\* state and with the engine results of `then`.
File(name, tick, sim) ==
    [run_name |-> name, tick |-> tick, sim |-> sim, enqueued |-> enqueued,
     pending |-> FALSE, then |-> <<>>]

\* abstutil::write_json(path, sim): a file of the same path is overwritten
write_json(fs, name, tick, sim) ==
    {f \in fs : ~(f.run_name = name /\ f.tick = tick)} \cup {File(name, tick, sim)}

\* faulty variant: a savestate is due after every tick
savestate_due_every_tick(every, now) == every # None

\* `if let Some(t) = self.savestate_every { if self.time.is_multiple_of(t) {`
savestate_due(every, now) == every # None /\ now % every = 0

\* no savestate was loaded: the Sim comes from Sim::new
NotLoaded == [loads |-> 0, run_name |-> "", tick |-> None, stepped |-> 0]

NoOutcome ==
    [newly_parked |-> <<>>, at_border |-> <<>>, done_biking |-> <<>>,
     reached_parking |-> <<>>, ready_to_bike |-> <<>>]

\* Event: what happened, the sub-step that pushed it, the agent and the spot
Event(kind, from, agent, spot) ==
    [kind |-> kind, from |-> from, agent |-> agent, spot |-> spot]

NoPopped == [at |-> None, cmds |-> <<>>, requests |-> <<>>, paths |-> <<>>]

Called(op) ==
    [op |-> op, args |-> <<>>, refused |-> FALSE, results |-> <<>>, at |-> time]

\* The callers of the Sim.  A run is driven by one of them: it seeds and starts
\* trips with the operations of that caller only, at any moment between steps.
Drivers == {"parked cars", "borders", "bikes and walks", "buses", "edits"}

CallsOf(d) ==
    CASE d = "parked cars" ->
           {"seed_specific_parked_cars", "seed_parked_cars",
            "start_trip_using_parked_car"}
      [] d = "borders" ->
           {"start_trip_with_car_at_border", "start_trip_with_bike_at_border"}
      [] d = "bikes and walks" ->
           {"start_trip_using_bike", "start_trip_just_walking"}
      [] d = "buses" ->
           {"seed_bus_route", "start_trip_using_bus", "start_trip_just_walking"}
      [] d = "savestates" ->
           {"start_trip_with_car_at_border", "load_savestate"}
      [] d = "seeding" ->
           {"seed_specific_parked_cars", "seed_parked_cars"}
      [] d = "savestate browser" ->
           {"save", "load_savestate", "find_previous_savestate",
            "find_next_savestate"}
      [] OTHER ->
           {"edit_lane_type", "edit_remove_turn", "edit_add_turn",
            "start_trip_just_walking"}

\* the savestate_every that Sim::new is given
SavestateEveryInputs == {None, 2}

\* the locals of the breadth-first searches (roads_queue, visited) with their
\* arguments; pushed is history: the roads in the order of their push_back
Search(fn, b, types, open, hood, status, queue, visited, pushed, lane, spot) ==
    [fn |-> fn, b |-> b, types |-> types, open |-> open, hood |-> hood,
     status |-> status, roads_queue |-> queue, visited |-> visited,
     pushed |-> pushed, lane |-> lane, spot |-> spot]

\* no search is running
NoSearch == Search("none", None, {}, <<>>, {}, "idle", <<>>, {}, <<>>, None, NoSpot)

\* WorldView::new(): no agent in it
WorldViewNew == [cars |-> {}, peds |-> {}]

\* Sim::new: Spawner::empty, Scheduler::new, TripManager::new, ...
New ==
    /\ time = 0
    /\ pc = "idle"
    /\ panic = "none"
    /\ commands = <<>>
    /\ enqueued = 0
    /\ car_id_counter = 0
    /\ ped_id_counter = 0
    /\ scheduler = <<>>
    /\ trips = <<>>
    /\ active_trip_mode = {}
    /\ parked_cars = {}
    /\ driving = {}
    /\ walking = {}
    /\ transit = [buses |-> {}, riders |-> {}]
    /\ outcome = NoOutcome
    /\ trace = <<>>
    /\ last = Called("new")
    /\ popped = NoPopped
    /\ car_ids = <<>>
    /\ ped_ids = <<>>
    /\ run_name = "a"
    /\ files = {}
    /\ loaded = NotLoaded
    /\ events = <<>>
    /\ view = WorldViewNew
    /\ search = NoSearch

\* a run without periodic savestates
Init ==
    /\ New
    /\ driver \in Drivers
    /\ savestate_every = None

\* an operation of Sim can be called: no step is running, nothing has aborted
Callable == pc = "idle" /\ panic = "none"

\* the run's caller uses the operation
Calls(op) == op \in CallsOf(driver)

(***************************************************************************)
(* The inputs of the operations.                                           *)
(***************************************************************************)
Ticks == 0..(MaxTime - 2)

GoalInputs == {ParkNear(2), ParkNear(3), ParkNear(4), Border(1)}

WalkStartInputs == {SpotBuilding(1)}

WalkGoalInputs == {SpotBuilding(2), SpotBuilding(3)}

BorderLaneInputs == {1}

StartBuildingInputs == {1}

\* faulty variant: the walk from the parked vehicle to the building is left out
walk_to_goal_forgotten(goal) == <<>>

\* the legs that follow the driving or biking leg: a walk to the building
walk_to_goal(goal) ==
    IF goal.kind = "ParkNear" THEN <<LegWalk(SpotBuilding(goal.b))>> ELSE <<>>

(***************************************************************************)
(* Spawner::start_trip_*                                                   *)
(***************************************************************************)
start_trip_with_car_at_border(at, first_lane, goal) ==
    LET car_id == car_id_counter
        ped_id == ped_id_counter
        legs == <<LegDriveFromBorder(car_id, goal)>> \o walk_to_goal(goal)
    IN  /\ car_id_counter' = car_id_counter + 1
        /\ ped_id_counter' = ped_id_counter + 1
        /\ trips' = new_trip(trips, at, ped_id, legs)
        /\ commands' = enqueue_command(commands,
               stamp(CmdDriveFromBorder(at, Len(trips), car_id, "Car", first_lane, goal),
                     enqueued + 1))
        /\ enqueued' = enqueued + 1
        /\ car_ids' = Append(car_ids, car_id)
        /\ ped_ids' = Append(ped_ids, ped_id)
        /\ last' = Called("start_trip_with_car_at_border")
        /\ UNCHANGED <<step_vars, engine_vars, active_trip_mode>>

StartTripWithCarAtBorder ==
    /\ Callable
    /\ Calls("start_trip_with_car_at_border")
    /\ car_id_counter < MaxCars /\ ped_id_counter < MaxPeds
    /\ \E at \in Ticks, l \in BorderLaneInputs, goal \in GoalInputs :
           start_trip_with_car_at_border(at, l, goal)
    /\ UNCHANGED <<setup_vars, search, disk_vars, events, view>>

\* faulty variant: the trip is started without asking get_trip_using_car
start_trip_using_parked_car_unguarded(at, parked, start_bldg, goal) ==
    IF parked.owner # start_bldg
    THEN /\ panic' = "assert_eq(parked.owner, Some(start_bldg))"
         /\ last' = [Called("start_trip_using_parked_car") EXCEPT
                        !.results = <<parked.car>>]
         /\ UNCHANGED <<time, pc, trace, popped, engine_vars, trip_vars, spawner_vars,
                        car_ids, ped_ids>>
    ELSE LET ped_id == ped_id_counter
             parking_spot == SpotParking(parked.spot)
             legs == <<LegWalk(parking_spot), LegDrive(parked, goal)>>
                     \o walk_to_goal(goal)
         IN  /\ ped_id_counter' = ped_id_counter + 1
             /\ trips' = new_trip(trips, at, ped_id, legs)
             /\ commands' = enqueue_command(commands,
                    stamp(CmdWalk(at, Len(trips), ped_id, SpotBuilding(start_bldg),
                                  parking_spot),
                          enqueued + 1))
             /\ enqueued' = enqueued + 1
             /\ ped_ids' = Append(ped_ids, ped_id)
             /\ last' = [Called("start_trip_using_parked_car") EXCEPT
                            !.results = <<parked.car>>]
             /\ UNCHANGED <<step_vars, engine_vars, active_trip_mode, car_id_counter,
                            car_ids>>

start_trip_using_parked_car(at, parked, start_bldg, goal) ==
    IF get_trip_using_car(trips, parked.car) # None
    THEN /\ last' = [Called("start_trip_using_parked_car") EXCEPT
                        !.refused = TRUE, !.results = <<parked.car>>]
         /\ UNCHANGED <<step_vars, engine_vars, trip_vars, spawner_vars, car_ids, ped_ids>>
    ELSE IF parked.owner # start_bldg
    THEN /\ panic' = "assert_eq(parked.owner, Some(start_bldg))"
         /\ last' = [Called("start_trip_using_parked_car") EXCEPT
                            !.results = <<parked.car>>]
         /\ UNCHANGED <<time, pc, trace, popped, engine_vars, trip_vars, spawner_vars,
                        car_ids, ped_ids>>
    ELSE LET ped_id == ped_id_counter
             parking_spot == SpotParking(parked.spot)
             legs == <<LegWalk(parking_spot), LegDrive(parked, goal)>>
                     \o walk_to_goal(goal)
         IN  /\ ped_id_counter' = ped_id_counter + 1
             /\ trips' = new_trip(trips, at, ped_id, legs)
             /\ commands' = enqueue_command(commands,
                    stamp(CmdWalk(at, Len(trips), ped_id, SpotBuilding(start_bldg), parking_spot),
                          enqueued + 1))
             /\ enqueued' = enqueued + 1
             /\ ped_ids' = Append(ped_ids, ped_id)
             /\ last' = [Called("start_trip_using_parked_car") EXCEPT
                            !.results = <<parked.car>>]
             /\ UNCHANGED <<step_vars, engine_vars, active_trip_mode, car_id_counter,
                            car_ids>>

StartTripUsingParkedCar ==
    /\ Callable
    /\ Calls("start_trip_using_parked_car")
    /\ ped_id_counter < MaxPeds
    /\ \E at \in Ticks, parked \in parked_cars, b \in StartBuildingInputs,
          goal \in GoalInputs :
           start_trip_using_parked_car(at, parked, b, goal)
    /\ UNCHANGED <<setup_vars, search, disk_vars, events, view>>

start_trip_using_bike(at, start_bldg, goal) ==
    LET ped_id == ped_id_counter
        bike_id == car_id_counter
        first_spot == SpotBikeRack(front_path_sidewalk(start_bldg))
        legs == <<LegWalk(first_spot), LegBike(bike_id, goal)>> \o walk_to_goal(goal)
    IN  /\ ped_id_counter' = ped_id_counter + 1
        /\ car_id_counter' = car_id_counter + 1
        /\ trips' = new_trip(trips, at, ped_id, legs)
        /\ commands' = enqueue_command(commands,
               stamp(CmdWalk(at, Len(trips), ped_id, SpotBuilding(start_bldg), first_spot),
                     enqueued + 1))
        /\ enqueued' = enqueued + 1
        /\ car_ids' = Append(car_ids, bike_id)
        /\ ped_ids' = Append(ped_ids, ped_id)
        /\ last' = Called("start_trip_using_bike")
        /\ UNCHANGED <<step_vars, engine_vars, active_trip_mode>>

StartTripUsingBike ==
    /\ Callable
    /\ Calls("start_trip_using_bike")
    /\ car_id_counter < MaxCars /\ ped_id_counter < MaxPeds
    /\ \E at \in Ticks, b \in StartBuildingInputs, goal \in GoalInputs :
           start_trip_using_bike(at, b, goal)
    /\ UNCHANGED <<setup_vars, search, disk_vars, events, view>>

start_trip_using_bus(at, start, goal, stop1, stop2) ==
    LET ped_id == ped_id_counter
        first_stop == SpotBusStop(stop1)
        legs == <<LegWalk(first_stop), LegRideBus(stop2), LegWalk(goal)>>
    IN  /\ ped_id_counter' = ped_id_counter + 1
        /\ trips' = new_trip(trips, at, ped_id, legs)
        /\ commands' = enqueue_command(commands,
               stamp(CmdWalk(at, Len(trips), ped_id, start, first_stop),
                     enqueued + 1))
        /\ enqueued' = enqueued + 1
        /\ ped_ids' = Append(ped_ids, ped_id)
        /\ last' = Called("start_trip_using_bus")
        /\ UNCHANGED <<step_vars, engine_vars, active_trip_mode, car_id_counter,
                       car_ids>>

StartTripUsingBus ==
    /\ Callable
    /\ Calls("start_trip_using_bus")
    /\ ped_id_counter < MaxPeds
    /\ \E at \in Ticks, start \in WalkStartInputs :
           start_trip_using_bus(at, start, SpotBuilding(2), RouteStops[1], RouteStops[2])
    /\ UNCHANGED <<setup_vars, search, disk_vars, events, view>>

start_trip_with_bike_at_border(at, first_lane, goal) ==
    LET bike_id == car_id_counter
        ped_id == ped_id_counter
        legs == <<LegBike(bike_id, goal)>> \o walk_to_goal(goal)
    IN  /\ car_id_counter' = car_id_counter + 1
        /\ ped_id_counter' = ped_id_counter + 1
        /\ trips' = new_trip(trips, at, ped_id, legs)
        /\ commands' = enqueue_command(commands,
               stamp(CmdDriveFromBorder(at, Len(trips), bike_id, "Bike", first_lane, goal),
                     enqueued + 1))
        /\ enqueued' = enqueued + 1
        /\ car_ids' = Append(car_ids, bike_id)
        /\ ped_ids' = Append(ped_ids, ped_id)
        /\ last' = Called("start_trip_with_bike_at_border")
        /\ UNCHANGED <<step_vars, engine_vars, active_trip_mode>>

StartTripWithBikeAtBorder ==
    /\ Callable
    /\ Calls("start_trip_with_bike_at_border")
    /\ car_id_counter < MaxCars /\ ped_id_counter < MaxPeds
    /\ \E at \in Ticks, l \in BorderLaneInputs, goal \in GoalInputs :
           start_trip_with_bike_at_border(at, l, goal)
    /\ UNCHANGED <<setup_vars, search, disk_vars, events, view>>

\* faulty variant: ped_id_counter is not advanced
start_trip_just_walking_reusing_ped(at, start, goal) ==
    LET ped_id == ped_id_counter
    IN  /\ ped_id_counter' = ped_id_counter
        /\ trips' = new_trip(trips, at, ped_id, <<LegWalk(goal)>>)
        /\ commands' = enqueue_command(commands,
               stamp(CmdWalk(at, Len(trips), ped_id, start, goal),
                     enqueued + 1))
        /\ enqueued' = enqueued + 1
        /\ ped_ids' = Append(ped_ids, ped_id)
        /\ last' = Called("start_trip_just_walking")
        /\ UNCHANGED <<step_vars, engine_vars, active_trip_mode, car_id_counter,
                       car_ids>>

start_trip_just_walking(at, start, goal) ==
    LET ped_id == ped_id_counter
    IN  /\ ped_id_counter' = ped_id_counter + 1
        /\ trips' = new_trip(trips, at, ped_id, <<LegWalk(goal)>>)
        /\ commands' = enqueue_command(commands,
               stamp(CmdWalk(at, Len(trips), ped_id, start, goal),
                     enqueued + 1))
        /\ enqueued' = enqueued + 1
        /\ ped_ids' = Append(ped_ids, ped_id)
        /\ last' = Called("start_trip_just_walking")
        /\ UNCHANGED <<step_vars, engine_vars, active_trip_mode, car_id_counter,
                       car_ids>>

StartTripJustWalking ==
    /\ Callable
    /\ Calls("start_trip_just_walking")
    /\ ped_id_counter < MaxPeds
    /\ \E at \in Ticks, start \in WalkStartInputs, goal \in WalkGoalInputs :
           start_trip_just_walking(at, start, goal)
    /\ UNCHANGED <<setup_vars, search, disk_vars, events, view>>

(***************************************************************************)
(* Seeding: seed_specific_parked_cars, seed_parked_cars, seed_bus_route.   *)
(***************************************************************************)
spot_taken(inventory, spot) == \E p \in inventory : p.spot = spot

\* ParkingSimState::add_parked_car: the inventory with the car added; a spot
\* holds one car, a second car for it is an invariant violation (not ok)
add_parked_car(inventory, p) ==
    IF spot_taken(inventory, p.spot)
    THEN [ok |-> FALSE, parked |-> inventory]
    ELSE [ok |-> TRUE, parked |-> inventory \cup {p}]

\* ParkingSimState::get_free_spots, in the order of their indices
RECURSIVE free_spots_from(_, _, _)
free_spots_from(inventory, lane, idx) ==
    IF <<lane, idx>> \notin AllSpots THEN <<>>
    ELSE (IF spot_taken(inventory, <<lane, idx>>) THEN <<>> ELSE << <<lane, idx>> >>)
         \o free_spots_from(inventory, lane, idx + 1)

get_free_spots(inventory, lane) == free_spots_from(inventory, lane, 0)

\* the state a seeding loop works on
Seeding(inventory, counter, ids, aborted) ==
    [parked |-> inventory, counter |-> counter, ids |-> ids, aborted |-> aborted]

\* the loop of seed_specific_parked_cars
RECURSIVE seed_specific_loop(_, _, _, _)
seed_specific_loop(st, lane, owner_building, spots) ==
    IF spots = <<>> \/ st.aborted THEN st
    ELSE LET car == st.counter
             added == add_parked_car(st.parked,
                                     ParkedCar(car, <<lane, Head(spots)>>, owner_building))
         IN  IF ~added.ok
             THEN Seeding(st.parked, st.counter, st.ids, TRUE)
             ELSE seed_specific_loop(
                      Seeding(added.parked, st.counter + 1, Append(st.ids, car), FALSE),
                      lane, owner_building, Tail(spots))

seed_specific_parked_cars(lane, owner_building, spots) ==
    LET st == seed_specific_loop(Seeding(parked_cars, car_id_counter, car_ids, FALSE),
                                 lane, owner_building, spots)
    IN  /\ parked_cars' = st.parked
        /\ car_id_counter' = st.counter
        /\ car_ids' = st.ids
        /\ panic' = IF st.aborted THEN "seed_specific_parked_cars: add_parked_car"
                    ELSE panic
        /\ last' = Called("seed_specific_parked_cars")
        /\ UNCHANGED <<time, pc, trace, popped, commands, enqueued, ped_id_counter, ped_ids,
                       trip_vars, scheduler, driving, walking, transit, outcome>>

SpotListInputs == {<<0>>, <<1>>, <<0, 1>>, <<1, 1>>}

SeedSpecificParkedCars ==
    /\ Callable
    /\ Calls("seed_specific_parked_cars")
    /\ \E lane \in ParkingLanes, b \in StartBuildingInputs, spots \in SpotListInputs :
           /\ car_id_counter + Len(spots) <= MaxCars
           /\ seed_specific_parked_cars(lane, b, spots)
    /\ UNCHANGED <<setup_vars, search, disk_vars, events, view>>

\* the lanes of a road that are parking lanes, in the order of its children
RECURSIVE parking_lanes_of(_)
parking_lanes_of(lanes) ==
    IF lanes = <<>> THEN <<>>
    ELSE (IF Head(lanes)[2] = "Parking" THEN <<Head(lanes)[1]>> ELSE <<>>)
         \o parking_lanes_of(Tail(lanes))

RECURSIVE free_spots_of_lanes(_, _)
free_spots_of_lanes(inventory, lanes) ==
    IF lanes = <<>> THEN <<>>
    ELSE get_free_spots(inventory, Head(lanes))
         \o free_spots_of_lanes(inventory, Tail(lanes))

\* the free spots of a road, before the shuffle
road_free_spots(inventory, r) ==
    free_spots_of_lanes(inventory, parking_lanes_of(children(r)))

\* the orders a shuffle can leave a list in
Shuffles(v) ==
    {w \in [1..Len(v) -> {v[i] : i \in 1..Len(v)}] :
        \A i \in 1..Len(v) : \E j \in 1..Len(v) : w[j] = v[i]}

\* faulty variant: the floodfill leaves the neighborhood
RECURSIVE push_next_roads_anywhere(_, _, _, _)
push_next_roads_anywhere(next, queue, visited, neighborhoods_roads) ==
    IF next = <<>> THEN [queue |-> queue, visited |-> visited]
    ELSE IF Head(next) \notin visited
         THEN push_next_roads_anywhere(Tail(next), Append(queue, Head(next)),
                                       visited \cup {Head(next)}, neighborhoods_roads)
         ELSE push_next_roads_anywhere(Tail(next), queue, visited,
                                       neighborhoods_roads)

\* faulty variant: a road is queued whether it was visited or not
RECURSIVE push_next_roads_visited_or_not(_, _, _, _)
push_next_roads_visited_or_not(next, queue, visited, neighborhoods_roads) ==
    IF next = <<>> THEN [queue |-> queue, visited |-> visited]
    ELSE IF Head(next) \in neighborhoods_roads
         THEN push_next_roads_visited_or_not(Tail(next), Append(queue, Head(next)),
                                             visited \cup {Head(next)},
                                             neighborhoods_roads)
         ELSE push_next_roads_visited_or_not(Tail(next), queue, visited,
                                             neighborhoods_roads)

\* the floodfill step of find_spot_near_building: it stays in the neighborhood
RECURSIVE push_next_roads_within(_, _, _, _)
push_next_roads_within(next, queue, visited, neighborhoods_roads) ==
    IF next = <<>> THEN [queue |-> queue, visited |-> visited]
    ELSE IF Head(next) \notin visited /\ Head(next) \in neighborhoods_roads
         THEN push_next_roads_within(Tail(next), Append(queue, Head(next)),
                                     visited \cup {Head(next)}, neighborhoods_roads)
         ELSE push_next_roads_within(Tail(next), queue, visited, neighborhoods_roads)

\* the loop of find_spot_near_building: the spot (None if there is none) and
\* the open spots that are left
RECURSIVE search_spot(_, _, _, _)
search_spot(roads_queue, visited, open_spots_per_road, neighborhoods_roads) ==
    IF roads_queue = <<>> THEN [spot |-> NoSpot, open |-> open_spots_per_road]
    ELSE LET r == Head(roads_queue)
             n == push_next_roads_within(get_next_roads(r), Tail(roads_queue),
                                         visited, neighborhoods_roads)
         IN  IF r \in DOMAIN open_spots_per_road /\ open_spots_per_road[r] # <<>>
             THEN LET spots == open_spots_per_road[r]
                  IN  [spot |-> spots[Len(spots)],
                       open |-> [open_spots_per_road EXCEPT
                                    ![r] = SubSeq(spots, 1, Len(spots) - 1)]]
             ELSE search_spot(n.queue, n.visited, open_spots_per_road,
                              neighborhoods_roads)

\* faulty variant: the spot found is left among the open spots
find_spot_near_building_keeping_it(b, open_spots_per_road, neighborhoods_roads) ==
    [search_spot(<<building_to_road(b)>>, {building_to_road(b)},
                 open_spots_per_road, neighborhoods_roads)
     EXCEPT !.open = open_spots_per_road]

find_spot_near_building(b, open_spots_per_road, neighborhoods_roads) ==
    search_spot(<<building_to_road(b)>>, {building_to_road(b)},
                open_spots_per_road, neighborhoods_roads)

\* history: the draws that a call has taken from base_rng and from the RNGs
\* forked off it
NoDraws == [base |-> 0, forked |-> 0]

\* abstutil::fork_rng(base_rng): the fork is seeded by one draw from the base
fork_rng(rng) == [rng EXCEPT !.base = @ + 1]

\* cars_per_building.sample(base_rng)
sample(rng) == [rng EXCEPT !.base = @ + 1]

\* spots.shuffle(&mut fork_rng(base_rng)): one draw from the fork for a swap
shuffle(rng, spots) ==
    [rng EXCEPT !.forked = @ + IF Len(spots) > 1 THEN Len(spots) - 1 ELSE 0]

\* faulty variant: the vehicle is generated from base_rng
generate_car_from_base_rng(rng) == [rng EXCEPT !.base = @ + 2]

\* Vehicle::generate_car(car, &mut forked_rng): the vehicle's length and its
\* max_speed are drawn from the fork
generate_car(rng) == [rng EXCEPT !.forked = @ + 2]

\* the first loop of seed_parked_cars, over the BTreeSet of the neighborhood's
\* roads: the free spots of each road are shuffled with an RNG forked for it
RECURSIVE shuffle_open_spots(_, _, _)
shuffle_open_spots(rng, roads, open) ==
    IF roads = {} THEN rng
    ELSE LET id == CHOOSE r \in roads : \A q \in roads : r <= q
         IN  shuffle_open_spots(shuffle(fork_rng(rng), open[id]), roads \ {id}, open)

\* the inner loop of seed_parked_cars: n cars for building b
RECURSIVE seed_cars_of_building(_, _, _, _, _)
seed_cars_of_building(st, b, n, neighborhoods_roads, new_cars) ==
    IF n = 0 \/ st.seeding.aborted THEN [seeding |-> st.seeding, open |-> st.open,
                                         rng |-> st.rng, new_cars |-> new_cars]
    ELSE LET forked_rng == fork_rng(st.rng)
             found == find_spot_near_building(b, st.open, neighborhoods_roads)
             car == st.seeding.counter
             added == add_parked_car(st.seeding.parked, ParkedCar(car, found.spot, b))
         IN  IF found.spot = NoSpot
             THEN seed_cars_of_building([st EXCEPT !.rng = forked_rng], b, n - 1,
                                        neighborhoods_roads, new_cars)
             ELSE IF ~added.ok
             THEN [seeding |-> Seeding(st.seeding.parked, car, st.seeding.ids, TRUE),
                   open |-> found.open, rng |-> generate_car(forked_rng),
                   new_cars |-> new_cars + 1]
             ELSE seed_cars_of_building(
                      [seeding |-> Seeding(added.parked, car + 1,
                                           Append(st.seeding.ids, car), FALSE),
                       open |-> found.open, rng |-> generate_car(forked_rng)],
                      b, n - 1, neighborhoods_roads, new_cars + 1)

\* the outer loop of seed_parked_cars; samples[i] is what
\* cars_per_building.sample gave for the i-th building
RECURSIVE seed_buildings(_, _, _, _, _)
seed_buildings(st, owner_buildings, samples, neighborhoods_roads, new_cars) ==
    IF owner_buildings = <<>> \/ st.seeding.aborted
    THEN [seeding |-> st.seeding, rng |-> st.rng, new_cars |-> new_cars]
    ELSE LET r == seed_cars_of_building([st EXCEPT !.rng = sample(@)],
                                        Head(owner_buildings), Head(samples),
                                        neighborhoods_roads, new_cars)
         IN  seed_buildings([seeding |-> r.seeding, open |-> r.open, rng |-> r.rng],
                            Tail(owner_buildings), Tail(samples),
                            neighborhoods_roads, r.new_cars)

\* seed_parked_cars; open is open_spots_per_road after the shuffles, wraps
\* says whether the build lets `owner_buildings.len() - new_cars` wrap around
\* (release) or aborts on it (debug)
seed_parked_cars(samples, owner_buildings, neighborhoods_roads, open, wraps) ==
    LET r == seed_buildings(
                 [seeding |-> Seeding(parked_cars, car_id_counter, car_ids, FALSE),
                  open |-> open,
                  rng |-> shuffle_open_spots(NoDraws, neighborhoods_roads, open)],
                 owner_buildings, samples, neighborhoods_roads, 0)
        underflow == r.new_cars > Len(owner_buildings) /\ ~wraps
    IN  /\ parked_cars' = r.seeding.parked
        /\ car_id_counter' = r.seeding.counter
        /\ car_ids' = r.seeding.ids
        /\ panic' = IF r.seeding.aborted THEN "seed_parked_cars: add_parked_car"
                    ELSE IF underflow THEN "seed_parked_cars: subtract with overflow"
                    ELSE panic
        /\ last' = IF driver = "seeding"
                   THEN \* history, kept for a caller that only seeds: the
                        \* arguments of the call and the draws it has taken
                        [Called("seed_parked_cars") EXCEPT
                           !.args = <<neighborhoods_roads, owner_buildings, samples>>,
                           !.results = <<r.rng.base, r.rng.forked, r.new_cars>>]
                   ELSE Called("seed_parked_cars")
        /\ UNCHANGED <<time, pc, trace, popped, commands, enqueued, ped_id_counter, ped_ids,
                       trip_vars, scheduler, driving, walking, transit, outcome>>

\* the most cars cars_per_building.sample gives a building
MaxCarsPerBuilding == 2

OwnerBuildingInputs == {<<1>>, <<2>>, <<1, 2>>}

NeighborhoodInputs == {{1, 2}, {2}}

RECURSIVE Sum(_)
Sum(v) == IF v = <<>> THEN 0 ELSE Head(v) + Sum(Tail(v))

SeedParkedCars ==
    /\ Callable
    /\ Calls("seed_parked_cars")
    /\ \E owner_buildings \in OwnerBuildingInputs, nbhd \in NeighborhoodInputs,
          wraps \in BOOLEAN :
         \E samples \in [1..Len(owner_buildings) -> 0..MaxCarsPerBuilding] :
           /\ car_id_counter + Sum(samples) <= MaxCars
           /\ \E open \in {f \in [nbhd -> UNION {Shuffles(road_free_spots(parked_cars, r)) : r \in nbhd}] :
                              \A r \in nbhd : f[r] \in Shuffles(road_free_spots(parked_cars, r))} :
                  seed_parked_cars(samples, owner_buildings, nbhd, open, wraps)
    /\ UNCHANGED <<setup_vars, search, disk_vars, events, view>>

\* a car of DrivingSimState: its trip, where its Router ends ("park",
\* "border", "bike", "bus") and the owner its CreateCar carries
DrivingCar(car, trip, router, owner, end_lane) ==
    [car |-> car, trip |-> trip, router |-> router, owner |-> owner,
     end_lane |-> end_lane]

\* a pedestrian of WalkingSimState: its trip, its goal, and whether it has
\* reached a bus stop and waits there
WalkingPed(ped, trip, goal, waiting) ==
    [ped |-> ped, trip |-> trip, goal |-> goal, waiting |-> waiting]

\* faulty variant: a bus that found no room is bound and registered all the same
RECURSIVE seed_bus_loop_no_room_ignored(_, _, _, _)
seed_bus_loop_no_room_ignored(st, starts, room, now) ==
    IF starts = <<>> THEN st
    ELSE LET id == st.counter
             trip == Len(st.trips)
             ts == new_trip(st.trips, now, None, <<LegServeBusRoute(id)>>)
         IN  seed_bus_loop_no_room_ignored(
               [counter |-> id + 1, ids |-> Append(st.ids, id), trips |-> ts,
                atm |-> agent_starting_trip_leg(st.atm, Car(id), trip),
                driving |-> IF Head(room)
                            THEN st.driving
                                 \cup {DrivingCar(id, trip, "bus", None, None)}
                            ELSE st.driving,
                buses |-> st.buses \cup {id},
                results |-> Append(st.results, id)],
               Tail(starts), Tail(room), now)

\* the state the loop of seed_bus_route works on
RECURSIVE seed_bus_loop(_, _, _, _)
seed_bus_loop(st, starts, room, now) ==
    IF starts = <<>> THEN st
    ELSE LET id == st.counter
             trip == Len(st.trips)
             ts == new_trip(st.trips, now, None, <<LegServeBusRoute(id)>>)
         IN  seed_bus_loop(
               IF Head(room)
               THEN [counter |-> id + 1, ids |-> Append(st.ids, id), trips |-> ts,
                     atm |-> agent_starting_trip_leg(st.atm, Car(id), trip),
                     driving |-> st.driving
                                 \cup {DrivingCar(id, trip, "bus", None, None)},
                     buses |-> st.buses \cup {id},
                     results |-> Append(st.results, id)]
               ELSE [st EXCEPT !.counter = id + 1, !.ids = Append(st.ids, id),
                               !.trips = ts],
               Tail(starts), Tail(room), now)

\* seed_bus_route; room[i] is what start_car_on_lane answers for the i-th start
seed_bus_route(room, now) ==
    LET st == seed_bus_loop(
                  [counter |-> car_id_counter, ids |-> car_ids, trips |-> trips,
                   atm |-> active_trip_mode, driving |-> driving,
                   buses |-> transit.buses, results |-> <<>>],
                  RouteStops, room, now)
    IN  /\ car_id_counter' = st.counter
        /\ car_ids' = st.ids
        /\ trips' = st.trips
        /\ active_trip_mode' = st.atm
        /\ driving' = st.driving
        /\ transit' = [transit EXCEPT !.buses = st.buses]
        /\ last' = [Called("seed_bus_route") EXCEPT !.results = st.results]
        /\ UNCHANGED <<step_vars, commands, enqueued, ped_id_counter, ped_ids, scheduler,
                       parked_cars, walking, outcome>>

SeedBusRoute ==
    /\ Callable
    /\ Calls("seed_bus_route")
    /\ car_id_counter + Len(RouteStops) <= MaxCars
    /\ \E room \in [1..Len(RouteStops) -> BOOLEAN] : seed_bus_route(room, time)
    /\ UNCHANGED <<setup_vars, search, disk_vars, events, view>>

(***************************************************************************)
(* Map edits and Sim::save.  The lane and turn tables that the edits       *)
(* change belong to the engines; none of the fields of Sim held in the     *)
(* variables is assigned.                                                  *)
(***************************************************************************)
LaneTypes == {"Driving", "Parking", "Sidewalk", "Biking", "Bus"}

\* a call of Sim to one of its engines
EngineCall(engine, method, arg) == <<engine, method, arg>>

\* faulty variant: bus lanes are handed to the parking engine
lane_owner_bus_as_parking(t) ==
    CASE t \in {"Driving", "Biking"} -> "driving_state"
      [] t \in {"Parking", "Bus"} -> "parking_state"
      [] OTHER -> "walking_state"

\* the arms of `match old_type` and `match l.lane_type`: the engine that owns
\* a lane of type t
lane_owner(t) ==
    CASE t \in {"Driving", "Bus", "Biking"} -> "driving_state"
      [] t = "Parking" -> "parking_state"
      [] OTHER -> "walking_state"

\* Sim::edit_lane_type(id, old_type, map); new_type is map.get_l(id).lane_type
edit_lane_type(id, old_type, new_type) ==
    /\ last' = [Called("edit_lane_type") EXCEPT
                  !.args = <<id, old_type, new_type>>,
                  !.results = <<EngineCall(lane_owner(old_type), "edit_remove_lane", id),
                                EngineCall(lane_owner(new_type), "edit_add_lane", id)>>]
    /\ UNCHANGED <<step_vars, spawner_vars, trip_vars, engine_vars, car_ids, ped_ids>>

\* the lanes that are edited: a parking lane and a sidewalk
EditedLaneInputs == {3, 4}

EditLaneType ==
    /\ Callable
    /\ Calls("edit_lane_type")
    /\ \E id \in EditedLaneInputs, old_type \in LaneTypes, new_type \in LaneTypes :
          edit_lane_type(id, old_type, new_type)
    /\ UNCHANGED <<setup_vars, search, disk_vars, events, view>>

\* Sim::edit_remove_turn(t)
edit_remove_turn(between_sidewalks) ==
    /\ last' = [Called("edit_remove_turn") EXCEPT
                  !.args = <<between_sidewalks>>,
                  !.results = <<IF between_sidewalks
                                THEN EngineCall("walking_state", "edit_remove_turn", "t")
                                ELSE EngineCall("driving_state", "edit_remove_turn", "t")>>]
    /\ UNCHANGED <<step_vars, spawner_vars, trip_vars, engine_vars, car_ids, ped_ids>>

EditRemoveTurn ==
    /\ Callable
    /\ Calls("edit_remove_turn")
    /\ \E between_sidewalks \in BOOLEAN : edit_remove_turn(between_sidewalks)
    /\ UNCHANGED <<setup_vars, search, disk_vars, events, view>>

\* Sim::edit_add_turn(t)
edit_add_turn(between_sidewalks) ==
    /\ last' = [Called("edit_add_turn") EXCEPT
                  !.args = <<between_sidewalks>>,
                  !.results = <<IF between_sidewalks
                                THEN EngineCall("walking_state", "edit_add_turn", "t")
                                ELSE EngineCall("driving_state", "edit_add_turn", "t")>>]
    /\ UNCHANGED <<step_vars, spawner_vars, trip_vars, engine_vars, car_ids, ped_ids>>

EditAddTurn ==
    /\ Callable
    /\ Calls("edit_add_turn")
    /\ \E between_sidewalks \in BOOLEAN : edit_add_turn(between_sidewalks)
    /\ UNCHANGED <<setup_vars, search, disk_vars, events, view>>

\* Sim::save(&self): writes the state to a file named after the time
Save ==
    /\ Callable
    /\ Calls("save")
    /\ last' = [Called("save") EXCEPT !.results = <<run_name, time>>]
    /\ files' = write_json(files, run_name, time, Sim)
    /\ UNCHANGED <<step_vars, spawner_vars, trip_vars, engine_vars, car_ids, ped_ids>>
    /\ UNCHANGED <<setup_vars, search, loaded, events, view>>

\* the run names a savestate is loaded under
RunNames == {"b"}

\* how many savestates one run loads
MaxLoads == 1

\* faulty variant: the spawner of the file is not read
load_savestate_without_spawner(f, new_run_name) ==
    /\ time' = f.sim.time
    /\ savestate_every' = f.sim.savestate_every
    /\ run_name' = IF new_run_name # <<>> THEN new_run_name[1] ELSE f.sim.run_name
    /\ scheduler' = f.sim.scheduler
    /\ driving' = f.sim.driving_state
    /\ parked_cars' = f.sim.parking_state
    /\ walking' = f.sim.walking_state
    /\ transit' = f.sim.transit_state
    /\ trips' = f.sim.trips_state.trips
    /\ active_trip_mode' = f.sim.trips_state.active_trip_mode
    /\ UNCHANGED <<commands, car_id_counter, ped_id_counter>>

\* Sim::load_savestate(path, new_run_name): the Sim read from the file, under
\* the new run name if one is given
load_savestate(f, new_run_name) ==
    /\ time' = f.sim.time
    /\ savestate_every' = f.sim.savestate_every
    /\ run_name' = IF new_run_name # <<>> THEN new_run_name[1] ELSE f.sim.run_name
    /\ commands' = f.sim.spawner.commands
    /\ car_id_counter' = f.sim.spawner.car_id_counter
    /\ ped_id_counter' = f.sim.spawner.ped_id_counter
    /\ scheduler' = f.sim.scheduler
    /\ driving' = f.sim.driving_state
    /\ parked_cars' = f.sim.parking_state
    /\ walking' = f.sim.walking_state
    /\ transit' = f.sim.transit_state
    /\ trips' = f.sim.trips_state.trips
    /\ active_trip_mode' = f.sim.trips_state.active_trip_mode

\* the caller replaces its Sim by the loaded one; nothing of a step is left
LoadSavestate ==
    /\ Callable
    /\ Calls("load_savestate")
    /\ loaded.loads < MaxLoads
    /\ \E f \in files, new_run_name \in {<<>>} \cup {<<name>> : name \in RunNames} :
          /\ load_savestate(f, new_run_name)
          /\ enqueued' = f.enqueued
          /\ last' = [Called("load_savestate") EXCEPT
                        !.args = <<f.run_name, f.tick, new_run_name>>,
                        !.at = f.sim.time]
          /\ loaded' = [loads |-> loaded.loads + 1, run_name |-> f.run_name,
                        tick |-> f.tick, stepped |-> 0]
    /\ outcome' = NoOutcome
    /\ popped' = NoPopped
    /\ trace' = <<>>
    /\ events' = <<>>
    /\ UNCHANGED <<pc, panic, car_ids, ped_ids, driver, files, view, search>>

\* Sim::find_all_savestates: the ticks of the files of this run's directory,
\* earliest first; read_dir fails when the directory does not exist
RECURSIVE sorted(_)
sorted(ticks) ==
    IF ticks = {} THEN <<>>
    ELSE LET least == CHOOSE t \in ticks : \A u \in ticks : t <= u
         IN  <<least>> \o sorted(ticks \ {least})

find_all_savestates ==
    LET dir == {f.tick : f \in {g \in files : g.run_name = run_name}}
    IN  [ok |-> dir # {}, list |-> sorted(dir)]

reverse(v) == [i \in 1..Len(v) |-> v[Len(v) + 1 - i]]

Found(tick) == [ok |-> TRUE, run_name |-> run_name, tick |-> tick]

IoError == [ok |-> FALSE, run_name |-> "", tick |-> None]

\* the first tick of the list that is before (after) the base time
RECURSIVE first_before(_, _)
first_before(list, base_time) ==
    IF list = <<>> THEN IoError
    ELSE IF Head(list) < base_time THEN Found(Head(list))
    ELSE first_before(Tail(list), base_time)

RECURSIVE first_after(_, _)
first_after(list, base_time) ==
    IF list = <<>> THEN IoError
    ELSE IF Head(list) > base_time THEN Found(Head(list))
    ELSE first_after(Tail(list), base_time)

\* faulty variant: a savestate at the base time counts as a previous one
find_previous_savestate_or_same(base_time) ==
    IF ~find_all_savestates.ok THEN IoError
    ELSE first_before(reverse(find_all_savestates.list), base_time + 1)

\* Sim::find_previous_savestate(base_time)
find_previous_savestate(base_time) ==
    IF ~find_all_savestates.ok THEN IoError
    ELSE first_before(reverse(find_all_savestates.list), base_time)

\* Sim::find_next_savestate(base_time)
find_next_savestate(base_time) ==
    IF ~find_all_savestates.ok THEN IoError
    ELSE first_after(find_all_savestates.list, base_time)

BaseTimeInputs == 0..MaxTime

FindPreviousSavestate ==
    /\ Callable
    /\ Calls("find_previous_savestate")
    /\ \E base_time \in BaseTimeInputs :
          last' = [Called("find_previous_savestate") EXCEPT
                     !.args = <<base_time>>,
                     !.results = <<find_previous_savestate(base_time)>>]
    /\ UNCHANGED <<step_vars, spawner_vars, trip_vars, engine_vars, car_ids, ped_ids>>
    /\ UNCHANGED <<setup_vars, search, disk_vars, events, view>>

FindNextSavestate ==
    /\ Callable
    /\ Calls("find_next_savestate")
    /\ \E base_time \in BaseTimeInputs :
          last' = [Called("find_next_savestate") EXCEPT
                     !.args = <<base_time>>,
                     !.results = <<find_next_savestate(base_time)>>]
    /\ UNCHANGED <<step_vars, spawner_vars, trip_vars, engine_vars, car_ids, ped_ids>>
    /\ UNCHANGED <<setup_vars, search, disk_vars, events, view>>

(***************************************************************************)
(* Sim::step and the sub-steps of Sim::inner_step.                         *)
(***************************************************************************)
\* faulty variant: the intersection step runs before the transit step
inner_step_order_swapped ==
    <<"spawner", "scheduler", "driving", "driving_outcomes", "populate_view",
      "walking", "walking_outcomes", "intersections", "transit", "advance_time",
      "collect_stats", "savestate">>

\* faulty variant: the intersection step runs before the driving step
inner_step_order_intersections_first ==
    <<"spawner", "scheduler", "intersections", "driving", "driving_outcomes",
      "populate_view", "walking", "walking_outcomes", "transit", "advance_time",
      "collect_stats", "savestate">>

\* the sub-steps of inner_step, in the order of its statements
inner_step_order ==
    <<"spawner", "scheduler", "driving", "driving_outcomes", "populate_view",
      "walking", "walking_outcomes", "transit", "intersections", "advance_time",
      "collect_stats", "savestate">>

\* the sub-step that follows sub-step p; "idle" once inner_step returns
after(p) ==
    LET i == CHOOSE j \in 1..Len(inner_step_order) : inner_step_order[j] = p
    IN  IF i = Len(inner_step_order) THEN "idle" ELSE inner_step_order[i + 1]

\* faulty variant: inner_step goes on after an error
At_after_errors(p) == pc = p

\* sub-step p is the next to run
At(p) == pc = p /\ panic = "none"

\* sub-step p has run
Ran(p) == /\ pc' = after(p)
          /\ trace' = Append(trace, p)

\* Sim::step is called: inner_step starts with a new WorldView and no events
Step ==
    /\ Callable
    /\ time < MaxTime
    /\ pc' = Head(inner_step_order)
    /\ trace' = <<>>
    /\ popped' = NoPopped
    /\ outcome' = NoOutcome
    /\ last' = Called("step")
    /\ UNCHANGED <<time, panic, spawner_vars, trip_vars, scheduler, parked_cars,
                   driving, walking, transit, car_ids, ped_ids>>
    /\ events' = <<>>
    /\ view' = WorldViewNew
    /\ files' = {[f EXCEPT !.pending = sim_eq(f.sim, Sim)] : f \in files}
    /\ UNCHANGED <<setup_vars, search, loaded>>

\* Spawner::step(now)
spawner_step(now) ==
    LET r == pop_commands(commands, now)
        requests == [i \in 1..Len(r.popped) |-> get_pathfinding_request(r.popped[i])]
    IN  IF \E i \in 1..Len(requests) : request_panics(requests[i])
        THEN /\ panic' = "Spawner::step: get_pathfinding_request"
             /\ UNCHANGED <<pc, trace, popped, commands, scheduler>>
        ELSE \E order \in Permutations(1..Len(requests)) :
               LET finished == [k \in 1..Len(requests) |-> order[k]]
                   paths == calculate_paths(requests, finished)
               IN  /\ commands' = r.rest
                   /\ scheduler' = forward_spawns(scheduler, r.popped, requests, paths,
                                                  now)
                   /\ popped' = [at |-> now, cmds |-> r.popped, requests |-> requests,
                                 paths |-> paths]
                   /\ Ran("spawner")
                   /\ UNCHANGED panic

SpawnerStep ==
    /\ At("spawner")
    /\ spawner_step(time)
    /\ UNCHANGED <<time, enqueued, car_id_counter, ped_id_counter, trip_vars, parked_cars,
                   driving, walking, transit, outcome, last, car_ids, ped_ids>>
    /\ UNCHANGED <<setup_vars, search, disk_vars, events, view>>

\* the engines' state a loop over spawn commands or outcomes works on
Engines(cmds, ts, atm, inventory, cars, peds, aborted) ==
    [commands |-> cmds, enqueued |-> enqueued, trips |-> ts, atm |-> atm, parked |-> inventory,
     driving |-> cars, walking |-> peds, aborted |-> aborted,
     why |-> "trip transition"]

\* Scheduler::step dispatches one due command: the agent is created in its
\* engine (a parked car leaves its spot) and starts its trip leg
dispatch(st, c) ==
    IF c.kind = "SpawnPed"
    THEN [st EXCEPT
            !.walking = @ \cup {WalkingPed(c.agent, c.trip, c.walk_goal, FALSE)},
            !.atm = agent_starting_trip_leg(@, Ped(c.agent), c.trip)]
    ELSE [st EXCEPT
            !.parked = @ \ {c.parked},
            !.driving = @ \cup {DrivingCar(c.agent, c.trip, c.router, c.parked.owner,
                                           c.end_lane)},
            !.atm = agent_starting_trip_leg(@, Car(c.agent), c.trip)]

RECURSIVE dispatch_due(_, _, _)
dispatch_due(st, sched, now) ==
    IF sched = <<>> THEN st
    ELSE dispatch_due(IF Head(sched).at = now THEN dispatch(st, Head(sched)) ELSE st,
                      Tail(sched), now)

RECURSIVE not_due(_, _)
not_due(sched, now) ==
    IF sched = <<>> THEN <<>>
    ELSE (IF Head(sched).at = now THEN <<>> ELSE <<Head(sched)>>)
         \o not_due(Tail(sched), now)

\* Scheduler::step(now)
SchedulerStep ==
    /\ At("scheduler")
    /\ LET st == dispatch_due(Engines(commands, trips, active_trip_mode, parked_cars,
                                      driving, walking, FALSE),
                              scheduler, time)
       IN  /\ walking' = st.walking
           /\ driving' = st.driving
           /\ parked_cars' = st.parked
           /\ active_trip_mode' = st.atm
    /\ scheduler' = not_due(scheduler, time)
    /\ Ran("scheduler")
    /\ UNCHANGED <<time, panic, popped, spawner_vars, trips, transit, outcome, last,
                   car_ids, ped_ids>>
    /\ LET due == SelectSeq(scheduler, LAMBDA c : c.at = time)
       IN  events' = events \o [i \in 1..Len(due) |->
                                   Event("AgentSpawned", "scheduler", due[i].agent,
                                         NoSpot)]
    /\ UNCHANGED <<setup_vars, search, disk_vars, view>>

\* the cars of a set in the order of their ids
RECURSIVE cars_in_order(_)
cars_in_order(cars) ==
    IF cars = {} THEN <<>>
    ELSE LET c == CHOOSE x \in cars : \A y \in cars : x.car <= y.car
         IN  <<c>> \o cars_in_order(cars \ {c})

\* the pedestrians of a set in the order of their ids
RECURSIVE peds_in_order(_)
peds_in_order(peds) ==
    IF peds = {} THEN <<>>
    ELSE LET p == CHOOSE x \in peds : \A y \in peds : x.ped <= y.ped
         IN  <<p>> \o peds_in_order(peds \ {p})

FreeSpots == {spot \in AllSpots : ~spot_taken(parked_cars, spot)}

\* DrivingSimState::step: the cars of `arrived` reach the end of their route
\* in this tick, those that park take the free spots spot_of gives them.
\* Returns (newly_parked, at_border, done_biking).
driving_step(arrived, spot_of) ==
    LET in_order == cars_in_order(arrived)
        parking == SelectSeq(in_order, LAMBDA c : c.router = "park")
        leaving == SelectSeq(in_order, LAMBDA c : c.router = "border")
        biking == SelectSeq(in_order, LAMBDA c : c.router = "bike")
    IN  /\ driving' = driving \ arrived
        /\ view' = [view EXCEPT !.cars = @ \cup driving]
        /\ events' = events \o [i \in 1..Len(in_order) |->
                                   Event("AgentLeftLane", "driving",
                                         in_order[i].car, NoSpot)]
        /\ outcome' = [outcome EXCEPT
              !.newly_parked = [i \in 1..Len(parking) |->
                                  ParkedCar(parking[i].car, spot_of[parking[i].car],
                                            parking[i].owner)],
              !.at_border = [i \in 1..Len(leaving) |-> leaving[i].car],
              !.done_biking = [i \in 1..Len(biking) |->
                                  <<biking[i].car, biking[i].end_lane>>]]

DrivingStep ==
    /\ At("driving")
    /\ \/ /\ \E arrived \in SUBSET {c \in driving : c.router # "bus"} :
               LET parkers == {c.car : c \in {x \in arrived : x.router = "park"}}
               IN  \E spot_of \in [parkers -> FreeSpots] :
                     /\ \A a, b \in parkers : a # b => spot_of[a] # spot_of[b]
                     /\ driving_step(arrived, spot_of)
          /\ Ran("driving")
          /\ UNCHANGED panic
       \/ \* the driving step returns Err: inner_step returns it, step panics
          /\ driving # {}
          /\ panic' = "driving_state.step: Err"
          /\ UNCHANGED <<pc, trace, driving, outcome, events, view>>
    /\ UNCHANGED <<time, popped, spawner_vars, trip_vars, scheduler, parked_cars,
                   walking, transit, last, car_ids, ped_ids>>
    /\ UNCHANGED <<setup_vars, search, disk_vars>>

\* the leg in front of trip t
front_leg(ts, t) == ts[t + 1].legs[1]

\* Spawner::car_reached_parking_spot, after parking_state.add_parked_car
car_reached_parking_spot(st, at, p) ==
    LET trip == agent_to_trip(st.atm, Car(p.car))
        added == add_parked_car(st.parked, p)
        ts == leg_done(st.trips, trip)
    IN  IF ~added.ok
        THEN [st EXCEPT !.aborted = TRUE, !.why = "inner_step: add_parked_car"]
        ELSE IF trip = None THEN [st EXCEPT !.aborted = TRUE]
        ELSE [st EXCEPT
                !.parked = added.parked,
                !.trips = ts,
                !.atm = agent_done(@, Car(p.car)),
                !.commands = enqueue_command(@,
                    stamp(CmdWalk(at + 1,
                          trip,
                          ts[trip + 1].ped,
                          SpotParking(p.spot),
                          front_leg(ts, trip).spot),
                          st.enqueued + 1)),
                !.enqueued = @ + 1]

\* TripManager::car_reached_border
car_reached_border(st, car, now) ==
    LET trip == agent_to_trip(st.atm, Car(car))
    IN  IF trip = None THEN [st EXCEPT !.aborted = TRUE]
        ELSE [st EXCEPT !.trips = trip_done(@, trip, now),
                        !.atm = agent_done(@, Car(car))]

\* Spawner::bike_reached_end
bike_reached_end(st, at, bike, last_lane) ==
    LET trip == agent_to_trip(st.atm, Car(bike))
        ts == leg_done(st.trips, trip)
        sidewalk == unwrap(find_closest_lane(last_lane, {"Sidewalk"}))
    IN  IF trip = None \/ sidewalk = Panic THEN [st EXCEPT !.aborted = TRUE]
        ELSE [st EXCEPT
                !.trips = ts,
                !.atm = agent_done(@, Car(bike)),
                !.commands = enqueue_command(@,
                    stamp(CmdWalk(at + 1,
                          trip,
                          ts[trip + 1].ped,
                          SpotBikeRack(sidewalk),
                          front_leg(ts, trip).spot),
                          st.enqueued + 1)),
                !.enqueued = @ + 1]

RECURSIVE for_newly_parked(_, _, _)
for_newly_parked(st, at, newly_parked) ==
    IF newly_parked = <<>> \/ st.aborted THEN st
    ELSE for_newly_parked(car_reached_parking_spot(st, at, Head(newly_parked)),
                          at, Tail(newly_parked))

RECURSIVE for_at_border(_, _, _)
for_at_border(st, now, at_border) ==
    IF at_border = <<>> \/ st.aborted THEN st
    ELSE for_at_border(car_reached_border(st, Head(at_border), now),
                       now, Tail(at_border))

RECURSIVE for_done_biking(_, _, _)
for_done_biking(st, at, done_biking) ==
    IF done_biking = <<>> \/ st.aborted THEN st
    ELSE for_done_biking(bike_reached_end(st, at, Head(done_biking)[1],
                                          Head(done_biking)[2]),
                         at, Tail(done_biking))

\* faulty variant: the newly parked cars are handled as cars that left the map
driving_outcomes_all_at_border(st, now) ==
    for_done_biking(
        for_at_border(st, now,
                      [i \in 1..Len(outcome.newly_parked) |->
                          outcome.newly_parked[i].car] \o outcome.at_border),
        now, outcome.done_biking)

\* the three loops of inner_step over what the driving step returned
driving_outcomes(st, now) ==
    for_done_biking(
        for_at_border(for_newly_parked(st, now, outcome.newly_parked),
                      now, outcome.at_border),
        now, outcome.done_biking)

\* a loop over outcomes has run: the state it leaves
Transitions(st, p) ==
    IF st.aborted
    THEN /\ panic' = st.why
         /\ UNCHANGED <<pc, trace, commands, enqueued, trips, active_trip_mode,
                        parked_cars>>
    ELSE /\ commands' = st.commands
         /\ enqueued' = st.enqueued
         /\ trips' = st.trips
         /\ active_trip_mode' = st.atm
         /\ parked_cars' = st.parked
         /\ Ran(p)
         /\ UNCHANGED panic

DrivingOutcomes ==
    /\ At("driving_outcomes")
    /\ Transitions(driving_outcomes(
           Engines(commands, trips, active_trip_mode, parked_cars, driving, walking,
                   FALSE), time),
           "driving_outcomes")
    /\ UNCHANGED <<time, popped, car_id_counter, ped_id_counter, scheduler, driving,
                   walking, transit, outcome, last, car_ids, ped_ids>>
    /\ events' = events \o [i \in 1..Len(outcome.newly_parked) |->
                               Event("CarReachedParkingSpot", "inner_step",
                                     outcome.newly_parked[i].car,
                                     outcome.newly_parked[i].spot)]
    /\ UNCHANGED <<setup_vars, search, disk_vars, view>>

\* faulty variant: the pedestrians are not written into the view
populate_view_nothing(v) == v

\* WalkingSimState::populate_view: an entry for every pedestrian, where it is
populate_view(v) == [v EXCEPT !.peds = @ \cup walking]

\* walking_state.populate_view(&mut view)
PopulateView ==
    /\ At("populate_view")
    /\ Ran("populate_view")
    /\ view' = populate_view(view)
    /\ UNCHANGED <<time, panic, popped, spawner_vars, trip_vars, engine_vars, last,
                   car_ids, ped_ids>>
    /\ UNCHANGED <<setup_vars, search, disk_vars, events>>

\* TripManager::ped_reached_building_or_border, called by the walking step
RECURSIVE for_reached_goal(_, _, _)
for_reached_goal(st, peds, now) ==
    IF peds = <<>> THEN st
    ELSE for_reached_goal(
             [st EXCEPT !.trips = trip_done(@, Head(peds).trip, now),
                        !.atm = agent_done(@, Ped(Head(peds).ped))],
             Tail(peds), now)

\* WalkingSimState::step: the pedestrians of `arrived` reach their goal in this
\* tick.  At a building or a border the trip ends, at a bus stop the
\* pedestrian waits.  Returns (reached_parking, ready_to_bike).
walking_step(arrived, now) ==
    LET in_order == peds_in_order(arrived)
        home == SelectSeq(in_order, LAMBDA p : p.goal.kind \in {"Building", "Border"})
        to_car == SelectSeq(in_order, LAMBDA p : p.goal.kind = "ParkingSpot")
        to_bike == SelectSeq(in_order, LAMBDA p : p.goal.kind = "BikeRack")
        to_bus == {p \in arrived : p.goal.kind = "BusStop"}
        st == for_reached_goal(
                  Engines(commands, trips, active_trip_mode, parked_cars, driving,
                          walking, FALSE), home, now)
    IN  /\ walking' = (walking \ arrived)
                      \cup {[p EXCEPT !.waiting = TRUE] : p \in to_bus}
        /\ events' = events \o [i \in 1..Len(home) |->
                                   Event("PedReachedBuilding", "walking",
                                         home[i].ped, NoSpot)]
        /\ trips' = st.trips
        /\ active_trip_mode' = st.atm
        /\ outcome' = [outcome EXCEPT
              !.reached_parking = [i \in 1..Len(to_car) |->
                                      <<to_car[i].ped, to_car[i].goal.spot>>],
              !.ready_to_bike = [i \in 1..Len(to_bike) |->
                                    <<to_bike[i].ped, to_bike[i].goal.lane>>]]

WalkingStep ==
    /\ At("walking")
    /\ \/ /\ \E arrived \in SUBSET {p \in walking : ~p.waiting} :
               walking_step(arrived, time)
          /\ Ran("walking")
          /\ UNCHANGED panic
       \/ \* the walking step returns Err: inner_step returns it, step panics
          /\ walking # {}
          /\ panic' = "walking_state.step: Err"
          /\ UNCHANGED <<pc, trace, walking, trip_vars, outcome, events>>
    /\ UNCHANGED <<time, popped, spawner_vars, scheduler, parked_cars, driving,
                   transit, last, car_ids, ped_ids>>
    /\ UNCHANGED <<setup_vars, search, disk_vars, view>>

\* faulty variant: the first parked car of the spot's lane is returned
get_car_at_spot_of_lane(inventory, spot) ==
    LET on_lane == {p \in inventory : p.spot[1] = spot[1]}
    IN  IF on_lane # {}
        THEN CHOOSE p \in on_lane : \A q \in on_lane : p.spot[2] <= q.spot[2]
        ELSE NoParkedCar

\* ParkingSimState::get_car_at_spot
get_car_at_spot(inventory, spot) ==
    IF spot_taken(inventory, spot)
    THEN CHOOSE p \in inventory : p.spot = spot
    ELSE NoParkedCar

\* faulty variant: the pedestrian at its car is sent walking again
ped_reached_parking_spot_walks_on(st, at, ped, spot) ==
    LET trip == agent_to_trip(st.atm, Ped(ped))
        ts == leg_done(st.trips, trip)
        car == get_car_at_spot(st.parked, spot)
    IN  IF trip = None \/ car = NoParkedCar THEN [st EXCEPT !.aborted = TRUE]
        ELSE [st EXCEPT
                !.trips = ts,
                !.atm = agent_done(@, Ped(ped)),
                !.commands = enqueue_command(@,
                    stamp(CmdWalk(at + 1, trip, ped, SpotParking(spot),
                                  SpotParking(spot)),
                          st.enqueued + 1)),
                !.enqueued = @ + 1]

\* Spawner::ped_reached_parking_spot
ped_reached_parking_spot(st, at, ped, spot) ==
    LET trip == agent_to_trip(st.atm, Ped(ped))
        ts == leg_done(st.trips, trip)
        car == get_car_at_spot(st.parked, spot)
    IN  IF trip = None \/ car = NoParkedCar THEN [st EXCEPT !.aborted = TRUE]
        ELSE [st EXCEPT
                !.trips = ts,
                !.atm = agent_done(@, Ped(ped)),
                !.commands = enqueue_command(@,
                    stamp(CmdDrive(at + 1,
                          trip,
                          car,
                          front_leg(ts, trip).goal),
                          st.enqueued + 1)),
                !.enqueued = @ + 1]

\* Spawner::ped_ready_to_bike
ped_ready_to_bike(st, at, ped, sidewalk_pos) ==
    LET trip == agent_to_trip(st.atm, Ped(ped))
        ts == leg_done(st.trips, trip)
    IN  IF trip = None THEN [st EXCEPT !.aborted = TRUE]
        ELSE [st EXCEPT
                !.trips = ts,
                !.atm = agent_done(@, Ped(ped)),
                !.commands = enqueue_command(@,
                    stamp(CmdBike(at + 1,
                          trip,
                          sidewalk_pos,
                          front_leg(ts, trip).car,
                          front_leg(ts, trip).goal),
                          st.enqueued + 1)),
                !.enqueued = @ + 1]

RECURSIVE for_reached_parking(_, _, _)
for_reached_parking(st, at, reached_parking) ==
    IF reached_parking = <<>> \/ st.aborted THEN st
    ELSE for_reached_parking(
             ped_reached_parking_spot(st, at, Head(reached_parking)[1],
                                      Head(reached_parking)[2]),
             at, Tail(reached_parking))

RECURSIVE for_ready_to_bike(_, _, _)
for_ready_to_bike(st, at, ready_to_bike) ==
    IF ready_to_bike = <<>> \/ st.aborted THEN st
    ELSE for_ready_to_bike(
             ped_ready_to_bike(st, at, Head(ready_to_bike)[1], Head(ready_to_bike)[2]),
             at, Tail(ready_to_bike))

\* the two loops of inner_step over what the walking step returned
walking_outcomes(st, now) ==
    for_ready_to_bike(for_reached_parking(st, now, outcome.reached_parking),
                      now, outcome.ready_to_bike)

WalkingOutcomes ==
    /\ At("walking_outcomes")
    /\ Transitions(walking_outcomes(
           Engines(commands, trips, active_trip_mode, parked_cars, driving, walking,
                   FALSE), time),
           "walking_outcomes")
    /\ UNCHANGED <<time, popped, car_id_counter, ped_id_counter, scheduler, driving,
                   walking, transit, outcome, last, car_ids, ped_ids>>
    /\ events' = events \o [i \in 1..Len(outcome.reached_parking) |->
                               Event("PedReachedParkingSpot", "inner_step",
                                     outcome.reached_parking[i][1],
                                     outcome.reached_parking[i][2])]
    /\ UNCHANGED <<setup_vars, search, disk_vars, view>>

\* Spawner::ped_finished_bus_ride
ped_finished_bus_ride(st, at, ped, stop) ==
    LET trip == agent_to_trip(st.atm, Ped(ped))
        ts == leg_done(st.trips, trip)
    IN  IF trip = None THEN [st EXCEPT !.aborted = TRUE]
        ELSE [st EXCEPT
                !.trips = ts,
                !.atm = agent_done(@, Ped(ped)),
                !.commands = enqueue_command(@,
                    stamp(CmdWalk(at + 1,
                          trip,
                          ped,
                          SpotBusStop(stop),
                          front_leg(ts, trip).spot),
                          st.enqueued + 1)),
                !.enqueued = @ + 1]

RECURSIVE for_alighting(_, _, _)
for_alighting(st, at, riders) ==
    IF riders = <<>> \/ st.aborted THEN st
    ELSE for_alighting(ped_finished_bus_ride(st, at, Head(riders).ped, Head(riders).stop),
                       at, Tail(riders))

\* TripManager::ped_boarded_bus: the walk to the stop is over
RECURSIVE for_boarding(_, _)
for_boarding(st, peds) ==
    IF peds = <<>> THEN st
    ELSE for_boarding([st EXCEPT !.trips = leg_done(@, Head(peds).trip)], Tail(peds))

\* TransitSimState::step: the riders of `alighting` leave their bus at their
\* stop, the waiting pedestrians of `boarding` get on a bus
transit_step(alighting, boarding, now) ==
    LET st == for_boarding(
                  for_alighting(
                      Engines(commands, trips, active_trip_mode, parked_cars, driving,
                              walking, FALSE),
                      now, peds_in_order(alighting)),
                  peds_in_order(boarding))
        off == peds_in_order(alighting)
        on == peds_in_order(boarding)
    IN  /\ Transitions(st, "transit")
        /\ events' = events
                      \o [i \in 1..Len(off) |->
                            Event("PedLeavesBus", "transit", off[i].ped, NoSpot)]
                      \o [i \in 1..Len(on) |->
                            Event("PedEntersBus", "transit", on[i].ped, NoSpot)]
        /\ walking' = walking \ boarding
        /\ transit' = [transit EXCEPT
              !.riders = (@ \ alighting)
                         \cup {[ped |-> p.ped,
                                stop |-> trips[p.trip + 1].legs[2].stop] : p \in boarding}]

TransitStep ==
    /\ At("transit")
    /\ \E alighting \in SUBSET transit.riders,
          boarding \in SUBSET {p \in walking : p.waiting /\ transit.buses # {}} :
           transit_step(alighting, boarding, time)
    /\ UNCHANGED <<time, popped, car_id_counter, ped_id_counter, scheduler, driving,
                   outcome, last, car_ids, ped_ids>>
    /\ UNCHANGED <<setup_vars, search, disk_vars, view>>

\* intersection_state.step(&mut events, time, map, &view)
IntersectionStep ==
    /\ At("intersections")
    /\ Ran("intersections")
    /\ UNCHANGED <<time, panic, popped, spawner_vars, trip_vars, engine_vars, last,
                   car_ids, ped_ids>>
    /\ LET cars == cars_in_order(driving)
       IN  events' = events \o [i \in 1..Len(cars) |->
                                   Event("IntersectionEvent", "intersections",
                                         cars[i].car, NoSpot)]
    /\ UNCHANGED <<setup_vars, search, disk_vars, view>>

\* faulty variant: the step forgets self.time.next()
AdvanceTimeForgotten ==
    /\ At("advance_time")
    /\ time' = time
    /\ Ran("advance_time")
    /\ UNCHANGED <<panic, popped, spawner_vars, trip_vars, engine_vars, last,
                   car_ids, ped_ids>>
    /\ UNCHANGED <<setup_vars, search, disk_vars, events, view>>

\* self.time = self.time.next()
AdvanceTime ==
    /\ At("advance_time")
    /\ time' = time + 1
    /\ Ran("advance_time")
    /\ UNCHANGED <<panic, popped, spawner_vars, trip_vars, engine_vars, last,
                   car_ids, ped_ids>>
    /\ UNCHANGED <<setup_vars, search, disk_vars, events, view>>

\* self.collect_stats(map)
CollectStats ==
    /\ At("collect_stats")
    /\ Ran("collect_stats")
    /\ UNCHANGED <<time, panic, popped, spawner_vars, trip_vars, engine_vars, last,
                   car_ids, ped_ids>>
    /\ UNCHANGED <<setup_vars, search, disk_vars, events, view>>

\* the savestate, if one is due; inner_step returns Ok(events)
Savestate ==
    /\ At("savestate")
    /\ Ran("savestate")
    /\ LET stepped == {[f EXCEPT !.pending = FALSE,
                                 !.then = IF f.pending /\ @ = <<>>
                                          THEN <<[sim |-> Sim, outcome |-> outcome,
                                                  events |-> events]>>
                                          ELSE @] : f \in files}
       IN  files' = IF savestate_due(savestate_every, time)
                    THEN write_json(stepped, run_name, time, Sim)
                    ELSE stepped
    /\ loaded' = [loaded EXCEPT !.stepped = 1]
    /\ UNCHANGED <<time, panic, popped, spawner_vars, trip_vars, engine_vars, last,
                   car_ids, ped_ids>>
    /\ UNCHANGED <<setup_vars, search, events, view>>

\* Sim::is_done
is_done == driving = {} /\ walking = {} /\ commands = <<>> /\ scheduler = <<>>

\* faulty variant: the time is not looked at
is_empty_at_any_time == is_done

\* Sim::is_empty
is_empty == time = 0 /\ is_done

Next ==
    \/ StartTripWithCarAtBorder
    \/ StartTripUsingParkedCar
    \/ StartTripUsingBike
    \/ StartTripUsingBus
    \/ StartTripWithBikeAtBorder
    \/ StartTripJustWalking
    \/ SeedSpecificParkedCars
    \/ SeedParkedCars
    \/ SeedBusRoute
    \/ EditLaneType
    \/ EditRemoveTurn
    \/ EditAddTurn
    \/ Step
    \/ SpawnerStep
    \/ SchedulerStep
    \/ DrivingStep
    \/ DrivingOutcomes
    \/ PopulateView
    \/ WalkingStep
    \/ WalkingOutcomes
    \/ TransitStep
    \/ IntersectionStep
    \/ AdvanceTime
    \/ CollectStats
    \/ Savestate

Spec == Init /\ [][Next]_vars

\* a run of a caller that saves and loads, with or without periodic savestates
InitSavestates ==
    /\ New
    /\ driver = "savestates"
    /\ savestate_every \in SavestateEveryInputs

NextSavestates ==
    \/ StartTripWithCarAtBorder
    \/ LoadSavestate
    \/ Step
    \/ SpawnerStep
    \/ SchedulerStep
    \/ DrivingStep
    \/ DrivingOutcomes
    \/ PopulateView
    \/ WalkingStep
    \/ WalkingOutcomes
    \/ TransitStep
    \/ IntersectionStep
    \/ AdvanceTime
    \/ CollectStats
    \/ Savestate

SpecSavestates == InitSavestates /\ [][NextSavestates]_vars

\* a run of a caller that steps an empty world, saves it by hand, searches
\* the savestates of its run and loads them
InitBrowser ==
    /\ New
    /\ driver = "savestate browser"
    /\ savestate_every \in SavestateEveryInputs

NextBrowser ==
    \/ Save
    \/ LoadSavestate
    \/ FindPreviousSavestate
    \/ FindNextSavestate
    \/ Step
    \/ SpawnerStep
    \/ SchedulerStep
    \/ DrivingStep
    \/ DrivingOutcomes
    \/ PopulateView
    \/ WalkingStep
    \/ WalkingOutcomes
    \/ TransitStep
    \/ IntersectionStep
    \/ AdvanceTime
    \/ CollectStats
    \/ Savestate

SpecBrowser == InitBrowser /\ [][NextBrowser]_vars


\* the values of Command that get_pathfinding_request is applied to: every
\* variant, every VehicleType of a vehicle entering at a border
CommandInputs ==
    {CmdWalk(at, 0, 0, SpotBuilding(b), SpotBuilding(g)) :
        <<at, b, g>> \in (0..MaxTime) \X Buildings \X Buildings}
    \cup {CmdDrive(at, 0, ParkedCar(0, spot, None), goal) :
            <<at, spot, goal>> \in (0..MaxTime) \X AllSpots \X GoalInputs}
    \cup {CmdBike(at, 0, front_path_sidewalk(b), 0, goal) :
            <<at, b, goal>> \in (0..MaxTime) \X Buildings \X GoalInputs}
    \cup {CmdDriveFromBorder(at, 0, 0, vtype, l, goal) :
            <<at, vtype, l, goal>> \in
                (0..MaxTime) \X {"Car", "Bike", "Bus"} \X {1, 6} \X GoalInputs}

\* cmd.get_pathfinding_request(map, parking_sim) alone: popped holds the
\* command and the request derived for it
GetPathfindingRequest ==
    /\ driver = "requests"
    /\ \E cmd \in CommandInputs :
          popped' = [at |-> time, cmds |-> <<cmd>>,
                     requests |-> <<get_pathfinding_request(cmd)>>,
                     paths |-> <<>>]
    /\ last' = Called("get_pathfinding_request")
    /\ UNCHANGED <<time, pc, panic, trace, spawner_vars, trip_vars, engine_vars,
                   car_ids, ped_ids, setup_vars, search, disk_vars, events, view>>

\* a caller that derives the request of one command after another
InitRequests ==
    /\ New
    /\ driver = "requests"
    /\ savestate_every = None

NextRequests == GetPathfindingRequest

SpecRequests == InitRequests /\ [][NextRequests]_vars



\* the lists of open spots a road can have: its free spots under some
\* inventory of the parking engine, shuffled
OpenSpotInputs(r) ==
    UNION {Shuffles(road_free_spots(inventory, r)) :
              inventory \in SUBSET {ParkedCar(spot[2], spot, None) : spot \in AllSpots}}

\* the values of open_spots_per_road: a list of open spots for some roads
OpenSpotsPerRoadInputs ==
    UNION {{open \in [roads -> UNION {OpenSpotInputs(r) : r \in roads}] :
               \A r \in roads : open[r] \in OpenSpotInputs(r)} :
           roads \in SUBSET Roads}

\* find_spot_near_building(b, &mut open_spots_per_road, neighborhoods_roads,
\* map); args[4] is history: the spots returned from these open spots before
find_spot(b, open_spots_per_road, neighborhoods_roads, returned) ==
    LET found == find_spot_near_building(b, open_spots_per_road, neighborhoods_roads)
    IN  /\ last' = [Called("find_spot_near_building") EXCEPT
                       !.args = <<b, open_spots_per_road, neighborhoods_roads,
                                  returned>>,
                       !.results = <<found.spot, found.open>>]
        /\ UNCHANGED <<step_vars, spawner_vars, trip_vars, engine_vars, car_ids,
                       ped_ids, setup_vars, search, disk_vars, events, view>>

\* the first search of a call of seed_parked_cars, in the open spots that it
\* has built
FindSpotNearBuilding ==
    /\ driver = "spots"
    /\ last.op # "find_spot_near_building"
    /\ \E b \in Buildings, neighborhoods_roads \in SUBSET Roads,
          open_spots_per_road \in OpenSpotsPerRoadInputs :
           find_spot(b, open_spots_per_road, neighborhoods_roads, {})

\* the next search of the loops of seed_parked_cars: in the open spots that
\* the search before has left, for the same neighborhood
FindSpotNearBuildingAgain ==
    /\ driver = "spots"
    /\ last.op = "find_spot_near_building"
    /\ \E b \in Buildings :
           find_spot(b, last.results[2], last.args[3],
                     last.args[4] \cup ({last.results[1]} \ {NoSpot}))

\* a caller that looks for one spot after another
InitSpots ==
    /\ New
    /\ driver = "spots"
    /\ savestate_every = None

NextSpots ==
    \/ FindSpotNearBuilding
    \/ FindSpotNearBuildingAgain

SpecSpots == InitSpots /\ [][NextSpots]_vars

\* the most roads a search may push before it is stopped
MaxPushes == 6

\* the roads that an iteration has pushed on the queue `rest`
pushed_on(rest, queue) == SubSeq(queue, Len(rest) + 1, Len(queue))

\* find_spot_near_building is entered: the building's road is queued and marked
FindSpotEnters ==
    /\ driver = "searches"
    /\ search.status = "idle"
    /\ \E b \in Buildings, neighborhoods_roads \in SUBSET Roads,
          open_spots_per_road \in OpenSpotsPerRoadInputs :
           search' = Search("find_spot_near_building", b, {}, open_spots_per_road,
                            neighborhoods_roads, "running",
                            <<building_to_road(b)>>, {building_to_road(b)},
                            <<building_to_road(b)>>, None, NoSpot)
    /\ last' = Called("find_spot_near_building")
    /\ UNCHANGED <<step_vars, spawner_vars, trip_vars, engine_vars, car_ids,
                   ped_ids, setup_vars, disk_vars, events, view>>

\* find_driving_lane_near_building or find_biking_goal_near_building is
\* entered: it returns the lane in front of the building if there is one,
\* otherwise the building's road is queued and marked
lane_search_enters(fn, b, types) ==
    LET l == find_closest_lane_to_bldg(b, types)
    IN  /\ search' = IF l # None
                      THEN Search(fn, b, types, <<>>, {}, "found", <<>>, {}, <<>>,
                                  l, NoSpot)
                      ELSE Search(fn, b, types, <<>>, {}, "running",
                                  <<building_to_road(b)>>, {building_to_road(b)},
                                  <<building_to_road(b)>>, None, NoSpot)
        /\ last' = Called(fn)
        /\ UNCHANGED <<step_vars, spawner_vars, trip_vars, engine_vars, car_ids,
                       ped_ids, setup_vars, disk_vars, events, view>>

FindDrivingLaneEnters ==
    /\ driver = "searches"
    /\ search.status = "idle"
    /\ \E b \in Buildings :
          lane_search_enters("find_driving_lane_near_building", b, {"Driving"})

FindBikingGoalEnters ==
    /\ driver = "searches"
    /\ search.status = "idle"
    /\ \E b \in Buildings :
          lane_search_enters("find_biking_goal_near_building", b,
                             {"Driving", "Biking"})

\* one iteration of `loop` in find_spot_near_building
spot_search_iteration ==
    IF search.roads_queue = <<>>
    THEN search' = [search EXCEPT !.status = "none"]
    ELSE LET r == Head(search.roads_queue)
             rest == Tail(search.roads_queue)
             n == push_next_roads_within(get_next_roads(r), rest, search.visited,
                                         search.hood)
         IN  IF r \in DOMAIN search.open /\ search.open[r] # <<>>
             THEN LET spots == search.open[r]
                  IN  search' = [search EXCEPT
                         !.status = "found",
                         !.roads_queue = rest,
                         !.spot = spots[Len(spots)],
                         !.open[r] = SubSeq(spots, 1, Len(spots) - 1)]
             ELSE search' = [search EXCEPT
                     !.roads_queue = n.queue,
                     !.visited = n.visited,
                     !.pushed = @ \o pushed_on(rest, n.queue)]

\* one iteration of `loop` in find_driving_lane_near_building and in
\* find_biking_goal_near_building
lane_search_iteration ==
    IF search.roads_queue = <<>>
    THEN search' = [search EXCEPT !.status = "panic"]
    ELSE LET r == Head(search.roads_queue)
             rest == Tail(search.roads_queue)
             l == first_lane_of(children(r), search.types)
             n == push_next_roads(get_next_roads(r), rest, search.visited)
         IN  IF l # None
             THEN search' = [search EXCEPT !.status = "found",
                                           !.roads_queue = rest,
                                           !.lane = l]
             ELSE search' = [search EXCEPT
                     !.roads_queue = n.queue,
                     !.visited = n.visited,
                     !.pushed = @ \o pushed_on(rest, n.queue)]

SearchLoop ==
    /\ driver = "searches"
    /\ search.status = "running"
    /\ Len(search.pushed) <= MaxPushes
    /\ IF search.fn = "find_spot_near_building"
       THEN spot_search_iteration
       ELSE lane_search_iteration
    /\ UNCHANGED <<step_vars, spawner_vars, trip_vars, engine_vars, last, car_ids,
                   ped_ids, setup_vars, disk_vars, events, view>>

\* a caller of one of the three searches; a search that has been entered
\* goes on until it returns or panics
InitSearches ==
    /\ New
    /\ driver = "searches"
    /\ savestate_every = None

NextSearches ==
    \/ FindSpotEnters
    \/ FindDrivingLaneEnters
    \/ FindBikingGoalEnters
    \/ SearchLoop

SpecSearches == InitSearches /\ [][NextSearches]_vars /\ WF_vars(SearchLoop)


\* a caller that seeds parked cars and does nothing else
InitSeeding ==
    /\ New
    /\ driver = "seeding"
    /\ savestate_every = None

NextSeeding ==
    \/ SeedSpecificParkedCars
    \/ SeedParkedCars

SpecSeeding == InitSeeding /\ [][NextSeeding]_vars



(***************************************************************************)
(* Properties.                                                             *)
(***************************************************************************)
\* the elements of a sequence
Range(v) == {v[i] : i \in 1..Len(v)}

\* no element occurs twice in the sequence
NoDup(v) == \A i, j \in 1..Len(v) : v[i] = v[j] => i = j

\* C1: every call of Sim.step that returns leaves time one tick after the time
\* it was called at, no other operation changes time, and time never decreases.
C1_StepAdvancesTimeByOne ==
    [][/\ (pc # "idle" /\ pc' = "idle") => time' = last.at + 1
       /\ pc = "idle" => time' = time
       /\ time' \in {time, time + 1}]_vars

\* a second step has returned and a trip was started or an edit made since
C1_Witness ==
    /\ pc = "idle"
    /\ time = 2
    /\ Len(trace) = 12
    /\ last.op \in {"start_trip_just_walking", "edit_lane_type"}

\* C2: within one Sim.step the sub-steps run in the order spawner, scheduler,
\* driving, transitions of the driving outcomes, populate_view, walking,
\* transitions of the walking outcomes, transit, intersections, time advance,
\* stats, savestate, each exactly once.
C2_SubStepsInOrder ==
    LET order == <<"spawner", "scheduler", "driving", "driving_outcomes",
                   "populate_view", "walking", "walking_outcomes", "transit",
                   "intersections", "advance_time", "collect_stats", "savestate">>
    IN  /\ \E n \in 0..Len(order) : trace = SubSeq(order, 1, n)
        /\ pc # "idle" => Len(trace) < Len(order) /\ pc = order[Len(trace) + 1]
        /\ pc = "idle" => trace \in {<<>>, order}
        /\ (pc = "idle" /\ last.op = "step") => trace = order

\* a step that had agents to move has returned
C2_Witness ==
    /\ pc = "idle"
    /\ last.op = "step"
    /\ Len(trace) = 12
    /\ driving # {} \/ walking # {}

\* C3: the commands that one Spawner.step pops (all with the same at) are
\* popped, and forwarded to the Scheduler, in the order they were enqueued in.
C3_PoppedInInsertionOrder ==
    [][(pc = "spawner" /\ pc' = "scheduler") =>
        LET cmds == popped'.cmds
            added == SubSeq(scheduler', Len(scheduler) + 1, Len(scheduler'))
            seq_of(t) == (CHOOSE c \in Range(cmds) : c.trip = t).seq
        IN  /\ \A i, j \in 1..Len(cmds) : i < j => cmds[i].seq < cmds[j].seq
            /\ \A i, j \in 1..Len(added) :
                  i < j => seq_of(added[i].trip) < seq_of(added[j].trip)]_vars

\* C4: every CarID and every PedestrianID handed out differs from all handed out
\* before it, and car_id_counter and ped_id_counter never decrease.
C4_IdsUniqueCountersMonotone ==
    [][/\ car_id_counter' >= car_id_counter
       /\ ped_id_counter' >= ped_id_counter
       /\ NoDup(car_ids') /\ NoDup(ped_ids')
       /\ \A i \in 1..Len(car_ids') : car_ids'[i] < car_id_counter'
       /\ \A i \in 1..Len(ped_ids') : ped_ids'[i] < ped_id_counter']_vars

\* ids were handed out and a trip was refused since
C4_Witness ==
    /\ Len(car_ids) >= 2
    /\ Len(ped_ids) >= 1
    /\ last.refused

\* C5: no parking spot holds more than one parked car, no CarID is parked twice,
\* and neither seed_parked_cars nor a step ever adds a car to an occupied spot.
C5_ParkingInventory ==
    /\ \A p, q \in parked_cars : (p.spot = q.spot \/ p.car = q.car) => p = q
    /\ panic \notin {"seed_parked_cars: add_parked_car", "inner_step: add_parked_car"}

\* a step in which a car parked has returned, and both spots are taken
C5_Witness ==
    /\ pc = "idle"
    /\ Cardinality(parked_cars) = 2
    /\ outcome.newly_parked # <<>>

\* C6: start_trip_using_parked_car for a car that a trip still uses is refused:
\* no trip is created, no PedestrianID consumed, no command enqueued; and no car
\* is the Drive-leg car of two trips.
C6_DoubleSpawnRefused ==
    [][LET drives(trip, car) ==
               \E i \in 1..Len(trip.legs) :
                   trip.legs[i].kind = "Drive" /\ trip.legs[i].car = car
       IN  /\ (/\ pc = "idle" /\ panic = "none"
               /\ last'.op = "start_trip_using_parked_car"
               /\ \E t \in 1..Len(trips) : drives(trips[t], last'.results[1]))
              => /\ last'.refused
                 /\ UNCHANGED <<trips, active_trip_mode, ped_id_counter, ped_ids,
                                commands, enqueued, scheduler, parked_cars,
                                car_id_counter, car_ids, time, panic>>
           /\ \A t, u \in 1..Len(trips') :
                 \A c \in 0..MaxCars :
                    (drives(trips'[t], c) /\ drives(trips'[u], c)) => t = u]_vars

\* a trip with a parked car was asked for while another trip had the car
C6_Witness ==
    /\ last.op = "start_trip_using_parked_car"
    /\ last.refused
    /\ Len(trips) >= 1

\* C7: for a popped command whose path is not found, Spawner.step forwards
\* nothing, raises no error and still forwards every other command of the tick
\* whose path is found; the trip stays unfinished with no agent bound, the
\* command is gone from the queue, and once the step returns with no other
\* unfinished trip, Sim.is_done() holds.
C7_FailedPathOrphansTrip ==
    [][LET cmds == popped'.cmds
           paths == popped'.paths
           added == SubSeq(scheduler', Len(scheduler) + 1, Len(scheduler'))
           failed == {i \in 1..Len(cmds) : ~paths[i]}
           orphans == {popped.cmds[i].trip :
                          i \in {k \in 1..Len(popped.cmds) : ~popped.paths[k]}}
       IN  /\ (pc = "spawner" /\ pc' = "scheduler") =>
                 /\ panic' = "none"
                 /\ SubSeq(scheduler', 1, Len(scheduler)) = scheduler
                 /\ \A i \in failed :
                       /\ \A k \in 1..Len(added) : added[k].trip # cmds[i].trip
                       /\ \A k \in 1..Len(commands') :
                             commands'[k].trip # cmds[i].trip
                       /\ trips'[cmds[i].trip + 1].finished_at = None
                       /\ trips'[cmds[i].trip + 1].legs # <<>>
                       /\ \A e \in active_trip_mode' : e[2] # cmds[i].trip
                 /\ \A i \in (1..Len(cmds)) \ failed :
                       \E k \in 1..Len(added) : added[k].trip = cmds[i].trip
           /\ (/\ pc = "savestate" /\ pc' = "idle"
               /\ orphans # {}
               /\ \A t \in 1..Len(trips) :
                     trips[t].finished_at = None => (t - 1) \in orphans)
                 => is_done']_vars

\* a step has popped a command whose path was not found and one whose path was
C7_Witness ==
    /\ pc = "scheduler"
    /\ \E i, j \in 1..Len(popped.cmds) : ~popped.paths[i] /\ popped.paths[j]

\* a step has returned that left nothing but orphaned trips
C7_WitnessDone ==
    /\ pc = "idle"
    /\ last.op = "step"
    /\ \E i \in 1..Len(popped.cmds) : ~popped.paths[i]
    /\ \A t \in 1..Len(trips) : trips[t].finished_at = None
    /\ is_done

\* C8: Spawner.step never aborts while it handles a command whose goal cannot
\* be reached.
C8_SpawnerStepNeverAborts ==
    panic # "Spawner::step: get_pathfinding_request"

\* C9: for each popped command whose path is found, Spawner.step enqueues
\* exactly one Scheduler command, stamped with the tick of the step: a SpawnPed
\* for a Walk command, a SpawnCar for any other, with the command's TripID and
\* the id of its agent.
C9_OneSpawnPerFoundPath ==
    [][(pc = "spawner" /\ pc' = "scheduler") =>
        LET cmds == popped'.cmds
            paths == popped'.paths
            added == SubSeq(scheduler', Len(scheduler) + 1, Len(scheduler'))
            found == {i \in 1..Len(cmds) : paths[i]}
            agent_of(c) == CASE c.kind = "Walk" -> c.ped
                             [] c.kind = "Drive" -> c.parked.car
                             [] OTHER -> c.car
        IN  /\ Len(added) = Cardinality(found)
            /\ \A i \in found :
                  \E k \in 1..Len(added) :
                     /\ added[k].trip = cmds[i].trip
                     /\ \A m \in 1..Len(added) :
                           added[m].trip = cmds[i].trip => m = k
                     /\ added[k].at = time
                     /\ added[k].at = cmds[i].at
                     /\ added[k].kind = IF cmds[i].kind = "Walk" THEN "SpawnPed"
                                        ELSE "SpawnCar"
                     /\ added[k].agent = agent_of(cmds[i])
                     /\ added[k].agent # None]_vars

\* a step has forwarded a pedestrian and a car
C9_Witness ==
    /\ pc = "scheduler"
    /\ \E i, j \in 1..Len(popped.cmds) :
          /\ popped.paths[i] /\ popped.cmds[i].kind = "Walk"
          /\ popped.paths[j] /\ popped.cmds[j].kind # "Walk"
    /\ Len(scheduler) >= 2

\* C10: a trip's legs are only ever dropped from the front, one at a time and by
\* a transition of a step; finished_at is set once, by the transition that drops
\* the last leg, and never changes afterwards.
C10_LegsOnlyPoppedFromFront ==
    [][/\ Len(trips') >= Len(trips)
       /\ \A t \in 1..Len(trips) :
             LET a == trips[t]
                 b == trips'[t]
             IN  /\ b.legs = a.legs \/ (a.legs # <<>> /\ b.legs = Tail(a.legs))
                 /\ b.legs # a.legs =>
                       pc \in {"driving_outcomes", "walking", "walking_outcomes",
                               "transit"}
                 /\ a.finished_at # None => b.finished_at = a.finished_at
                 /\ (a.finished_at = None /\ b.finished_at # None) =>
                       /\ Len(a.legs) = 1 /\ b.legs = <<>>
                       /\ b.finished_at = time
                 /\ (a.legs # <<>> /\ b.legs = <<>>) => b.finished_at # None
                 /\ b.started_at = a.started_at /\ b.ped = a.ped]_vars

\* every trip has finished, one of them after its car came in from a border
\* and parked (the legs DriveFromBorder and Walk were dropped in turn)
C10_Witness ==
    /\ trips # <<>>
    /\ \A t \in 1..Len(trips) : trips[t].finished_at # None /\ trips[t].legs = <<>>
    /\ \E p \in parked_cars : p.owner = None

\* C11: every trip a Spawner operation creates has a legal leg list: a Drive leg
\* comes right after a Walk to the spot of its car, a RideBus leg has a Walk
\* right before and right after it, a ServeBusRoute leg is alone, and a trip
\* with goal ParkNear(b) ends with a Walk to building b.
C11_LegalLegLists ==
    [][\A t \in (Len(trips) + 1)..Len(trips') :
          LET legs == trips'[t].legs
              n == Len(legs)
          IN  /\ n >= 1
              /\ \A i \in 1..n :
                    /\ legs[i].kind = "Drive" =>
                          /\ i > 1
                          /\ legs[i - 1].kind = "Walk"
                          /\ legs[i - 1].spot.kind = "ParkingSpot"
                          /\ legs[i - 1].spot.spot = legs[i].parked.spot
                          /\ legs[i].parked.car = legs[i].car
                    /\ legs[i].kind = "RideBus" =>
                          /\ 1 < i /\ i < n
                          /\ legs[i - 1].kind = "Walk"
                          /\ legs[i + 1].kind = "Walk"
                    /\ legs[i].kind = "ServeBusRoute" => n = 1
                    /\ legs[i].goal.kind = "ParkNear" =>
                          /\ legs[n].kind = "Walk"
                          /\ legs[n].spot.kind = "Building"
                          /\ legs[n].spot.ref = legs[i].goal.b]_vars

\* a trip by parked car to a building exists as it was created
C11_Witness ==
    \E t \in 1..Len(trips) :
        /\ Len(trips[t].legs) = 3
        /\ trips[t].legs[2].kind = "Drive"
        /\ trips[t].legs[2].goal.kind = "ParkNear"

\* what is on disk: the run, the tick and the Sim of every savestate
Disk(fs) == {<<f.run_name, f.tick, f.sim>> : f \in fs}

\* C12: a step writes a savestate if and only if savestate_every is Some(T)
\* and the time after the advance is a multiple of T; the file is the one of
\* that time and of this run and it holds the Sim at the end of the step.
\* No other transition of a step touches the disk, so the first step after
\* a load leaves the loaded file as it was.
C12_SavestateAfterAdvance ==
    [][/\ (pc # "idle" /\ pc' = "idle") =>
            /\ Disk(files') =
                 IF savestate_every # None /\ time' % savestate_every = 0
                 THEN {d \in Disk(files) : ~(d[1] = run_name /\ d[2] = time')}
                      \cup {<<run_name, time', Sim'>>}
                 ELSE Disk(files)
            /\ (loaded.loads > 0 /\ loaded.stepped = 0) =>
                 \A d \in Disk(files) :
                    (d[1] = loaded.run_name /\ d[2] = loaded.tick) => d \in Disk(files')
       /\ (pc' # "idle" /\ last'.op = "step") => Disk(files') = Disk(files)]_vars

\* a Sim loaded from the savestate of tick 2 has stepped once: the only file
\* of its run is still the one of tick 2
C12_Witness ==
    /\ pc = "idle" /\ savestate_every = 2 /\ time = 3
    /\ loaded.loads = 1 /\ loaded.tick = 2 /\ loaded.stepped = 1
    /\ loaded.run_name = run_name
    /\ {d[2] : d \in {e \in Disk(files) : e[1] = run_name}} = {2}

\* C13: is_empty is true exactly when the time is 0 and no car drives, no
\* pedestrian walks and neither the spawner nor the scheduler holds a
\* command; it is true of the Sim that Sim::new returns and false whenever
\* a step has returned.
C13_IsEmpty ==
    /\ is_empty <=> /\ time = 0
                    /\ driving = {} /\ walking = {}
                    /\ commands = <<>> /\ scheduler = <<>>
    /\ last.op = "new" => is_empty
    /\ (pc = "idle" /\ trace # <<>>) => ~is_empty

\* a step of a world where nothing is left to do has returned
C13_Witness ==
    /\ pc = "idle" /\ trace = inner_step_order
    /\ trips # <<>> /\ is_done /\ ~is_empty

\* the savestate of the last load
LoadedFiles == {f \in files : f.run_name = loaded.run_name /\ f.tick = loaded.tick}

StepErrors == {"driving_state.step: Err", "walking_state.step: Err"}

\* C16: when the driving or the walking sub-step returns an error, the step
\* ends there.  The sub-steps before it have run and none after it, the
\* error itself changes nothing else: no trip transition, no advance of the
\* time, no savestate.  From then on nothing runs: the step is not retried.
C16_ErrorEndsTheStep ==
    [][/\ panic \in StepErrors => UNCHANGED vars
       /\ (panic = "none" /\ panic' \in StepErrors) =>
            /\ last.op = "step" /\ time = last.at
            /\ pc = IF panic' = "driving_state.step: Err" THEN "driving" ELSE "walking"
            /\ trace = IF panic' = "driving_state.step: Err"
                       THEN <<"spawner", "scheduler">>
                       ELSE <<"spawner", "scheduler", "driving", "driving_outcomes",
                              "populate_view">>
            /\ UNCHANGED <<time, pc, trace, popped, spawner_vars, trip_vars,
                           engine_vars, last, car_ids, ped_ids, setup_vars, search, disk_vars,
                           events>>]_vars

\* the walking sub-step of tick 1 has failed in a run that saves every second
\* tick: the step has not reached the savestate of tick 2
C16_Witness ==
    /\ panic = "walking_state.step: Err" /\ pc = "walking"
    /\ savestate_every = 2 /\ time = 1 /\ files = {}
    /\ walking # {}

\* C17: edit_lane_type makes two calls and no other: edit_remove_lane on the
\* engine that owns the old type, then edit_add_lane on the engine that owns
\* the lane's new type, where Driving, Bus and Biking lanes are owned by the
\* driving engine, Parking lanes by the parking engine and Sidewalks by the
\* walking engine.  edit_remove_turn and edit_add_turn make one call, to the
\* walking engine when the turn is between sidewalks and to the driving engine
\* when it is not.  No field of the Sim is assigned.
C17_EditsGoToTheOwner ==
    [][LET owner == [Driving |-> "driving_state", Bus |-> "driving_state",
                     Biking |-> "driving_state", Parking |-> "parking_state",
                     Sidewalk |-> "walking_state"]
           id == last'.args[1]
           turn_owner == IF last'.args[1] THEN "walking_state" ELSE "driving_state"
       IN  /\ last'.op = "edit_lane_type" =>
                /\ last'.results = << <<owner[last'.args[2]], "edit_remove_lane", id>>,
                                      <<owner[last'.args[3]], "edit_add_lane", id>> >>
                /\ Sim' = Sim
           /\ last'.op = "edit_remove_turn" =>
                /\ last'.results = << <<turn_owner, "edit_remove_turn", "t">> >>
                /\ Sim' = Sim
           /\ last'.op = "edit_add_turn" =>
                /\ last'.results = << <<turn_owner, "edit_add_turn", "t">> >>
                /\ Sim' = Sim]_vars

\* a parking lane has become a bus lane while a pedestrian is under way
C17_Witness ==
    /\ last.op = "edit_lane_type" /\ last.args = <<3, "Parking", "Bus">>
    /\ last.results = << <<"parking_state", "edit_remove_lane", 3>>,
                         <<"driving_state", "edit_add_lane", 3>> >>
    /\ time > 0 /\ walking # {}

\* the place of an event in the order of the sub-steps: the events of the
\* scheduler and of the driving step and CarReachedParkingSpot, then those of
\* the walking step and PedReachedParkingSpot, then those of the transit
\* step, then those of the intersections
event_rank(e) ==
    CASE e.kind = "CarReachedParkingSpot" \/ e.from \in {"scheduler", "driving"} -> 1
      [] e.kind = "PedReachedParkingSpot" \/ e.from = "walking" -> 2
      [] e.from = "transit" -> 3
      [] e.from = "intersections" -> 4

\* C18: in the event list of a step no event comes before an event of an
\* earlier place: scheduler and driving events and CarReachedParkingSpot
\* first, then walking events and PedReachedParkingSpot, then transit events,
\* then intersection events.
C18_EventsInSubStepOrder ==
    \A i, j \in 1..Len(events) :
       i < j => event_rank(events[i]) <= event_rank(events[j])

\* a step has returned events of all four places
C18_Witness ==
    /\ pc = "idle"
    /\ {event_rank(events[i]) : i \in 1..Len(events)} = {1, 2, 3, 4}

\* the ticks of the savestates of this run
OurTicks == {f.tick : f \in {g \in files : g.run_name = run_name}}

\* C19: find_previous_savestate(base) returns the savestate of this run with
\* the greatest tick below base and find_next_savestate(base) the one with
\* the least tick above base; each returns an I/O error when this run has no
\* such savestate.  A savestate at base is never the result.
C19_FindSavestates ==
    LET base == last.args[1]
        found == last.results[1]
        before == {t \in OurTicks : t < base}
        later == {t \in OurTicks : t > base}
    IN  /\ last.op = "find_previous_savestate" =>
             IF before = {} THEN ~found.ok
             ELSE /\ found.ok /\ found.run_name = run_name /\ found.tick # base
                  /\ found.tick \in before /\ \A t \in before : t <= found.tick
        /\ last.op = "find_next_savestate" =>
             IF later = {} THEN ~found.ok
             ELSE /\ found.ok /\ found.run_name = run_name /\ found.tick # base
                  /\ found.tick \in later /\ \A t \in later : found.tick <= t

\* run "b" has savestates at ticks 1 and 2 and run "a" has savestates too:
\* the savestate before tick 2 is the one of run "b" at tick 1
C19_Witness ==
    /\ last.op = "find_previous_savestate" /\ last.args = <<2>>
    /\ run_name = "b" /\ {1, 2} \subseteq OurTicks
    /\ \E f \in files : f.run_name = "a" /\ f.tick < 2
    /\ last.results = <<[ok |-> TRUE, run_name |-> "b", tick |-> 1]>>

\* C20: when Spawner::step(now) starts, no command of the queue is scheduled
\* for a tick before now.
C20_NoCommandBeforeNow ==
    At("spawner") => \A i \in 1..Len(commands) : commands[i].at >= time

\* C21: when Spawner::step(now) has returned, no command of the queue is
\* scheduled for now, and every command that was queued for a later tick is
\* still queued.
C21_StepTakesAllOfNow ==
    [][(pc = "spawner" /\ pc' # "spawner") =>
          /\ \A i \in 1..Len(commands') : commands'[i].at # time
          /\ \A i \in 1..Len(commands) :
                commands[i].at > time => commands[i] \in Range(commands')]_vars

\* C22: the command vector is always ordered by non-increasing at, so its
\* last element, the next to be popped, has the least at of the queue.
C22_QueueSortedDescending ==
    /\ \A i, j \in 1..Len(commands) : i < j => commands[i].at >= commands[j].at
    /\ commands # <<>> =>
         \A i \in 1..Len(commands) : commands[Len(commands)].at <= commands[i].at

\* after a step, a command was enqueued for an earlier tick than one that
\* was already waiting: it stands behind it
C22_Witness ==
    /\ pc = "idle" /\ time > 0 /\ Len(commands) = 2
    /\ commands[1].at > commands[2].at
    /\ commands[1].seq < commands[2].seq

\* C23: in Spawner::step the i-th request is the one of the i-th popped
\* command and the i-th path the result for the i-th request, in whatever
\* order the workers finish; the spawns forwarded are those of the commands
\* whose own path was found, in the order of the commands, each to the end
\* of its own request.
C23_PathsPairWithCommands ==
    [][(pc = "spawner" /\ pc' = "scheduler") =>
        LET cmds == popped'.cmds
            requests == popped'.requests
            paths == popped'.paths
            added == SubSeq(scheduler', Len(scheduler) + 1, Len(scheduler'))
            found == {i \in 1..Len(cmds) : part_of(requests[i].start)
                                             = part_of(requests[i].end)}
            nth(i) == Cardinality({j \in found : j <= i})
        IN  /\ Len(requests) = Len(cmds) /\ Len(paths) = Len(cmds)
            /\ \A i \in 1..Len(cmds) :
                  /\ requests[i] = get_pathfinding_request(cmds[i])
                  /\ paths[i] <=> i \in found
            /\ Len(added) = Cardinality(found)
            /\ \A i \in found :
                  /\ added[nth(i)].trip = cmds[i].trip
                  /\ added[nth(i)].end_lane = requests[i].end]_vars

\* a step has popped two commands; the path of the first was not found and
\* the path of the second was
C23_Witness ==
    /\ pc = "scheduler" /\ Len(popped.cmds) = 2
    /\ ~popped.paths[1] /\ popped.paths[2]
    /\ scheduler # <<>>
    /\ scheduler[Len(scheduler)].trip = popped.cmds[2].trip

\* the commands that the transition has passed to enqueue_command
enqueued_now == {c \in Range(commands') : c.seq > enqueued}

\* the handler of the agent's finished leg has enqueued one command, for the
\* agent's trip and the next tick, of the kind of the leg now in front
one_command_for(agent, kind) ==
    LET trip == agent_to_trip(active_trip_mode, agent)
        cmds == {c \in enqueued_now : c.trip = trip}
    IN  /\ trip # None
        /\ Cardinality(cmds) = 1
        /\ \A c \in cmds : /\ c.kind = kind
                            /\ c.at = time + 1
                            /\ front_leg(trips', trip).kind = kind
                            /\ c \notin Range(commands)

\* n handlers have run: n commands more, no command lost
commands_grow_by(n) ==
    /\ Cardinality(enqueued_now) = n
    /\ enqueued' = enqueued + n
    /\ Len(commands') = Len(commands) + n
    /\ Range(commands) \subseteq Range(commands')

\* C24: each leg-completion handler enqueues exactly one command, of the kind
\* of the trip's next leg and for the trip of the agent: a Walk for a newly
\* parked car, a bike at its end and a rider leaving a bus, a Drive for a
\* pedestrian at its parked car, a Bike for a pedestrian at its bike; a car at
\* a border enqueues nothing
C24_OneCommandPerFinishedLeg ==
    [][LET off == transit.riders \ transit'.riders
       IN  /\ (pc = "driving_outcomes" /\ pc' # pc) =>
                 /\ commands_grow_by(Len(outcome.newly_parked)
                                     + Len(outcome.done_biking))
                 /\ \A i \in 1..Len(outcome.newly_parked) :
                       one_command_for(Car(outcome.newly_parked[i].car), "Walk")
                 /\ \A i \in 1..Len(outcome.done_biking) :
                       one_command_for(Car(outcome.done_biking[i][1]), "Walk")
                 /\ \A i \in 1..Len(outcome.at_border) :
                       \A c \in enqueued_now :
                           c.trip # agent_to_trip(active_trip_mode,
                                                  Car(outcome.at_border[i]))
           /\ (pc = "walking_outcomes" /\ pc' # pc) =>
                 /\ commands_grow_by(Len(outcome.reached_parking)
                                     + Len(outcome.ready_to_bike))
                 /\ \A i \in 1..Len(outcome.reached_parking) :
                       one_command_for(Ped(outcome.reached_parking[i][1]), "Drive")
                 /\ \A i \in 1..Len(outcome.ready_to_bike) :
                       one_command_for(Ped(outcome.ready_to_bike[i][1]), "Bike")
           /\ (pc = "transit" /\ pc' # pc) =>
                 /\ commands_grow_by(Cardinality(off))
                 /\ \A r \in off : one_command_for(Ped(r.ped), "Walk")]_vars

\* the loops over the walking outcomes have run on a pedestrian that reached
\* its parked car: the Drive command of its trip waits for the next tick
C24_Witness ==
    /\ pc = "transit"
    /\ panic = "none"
    /\ Len(outcome.reached_parking) > 0
    /\ \E c \in Range(commands) :
          /\ c.kind = "Drive"
          /\ c.at = time + 1
          /\ c.seq = enqueued
          /\ front_leg(trips, c.trip).kind = "Drive"

\* C25: the request derived for a command allows bus lanes exactly for a
\* DriveFromBorder command with a Bus vehicle, and bike lanes exactly for a
\* Bike command or a DriveFromBorder command with a Bike vehicle; the
\* requests of Walk and Drive commands allow neither
C25_LanePermissionsOfRequests ==
    /\ Len(popped.requests) = Len(popped.cmds)
    /\ \A i \in 1..Len(popped.cmds) :
          LET cmd == popped.cmds[i]
              req == popped.requests[i]
          IN  /\ req.can_use_bus_lanes <=>
                    (cmd.kind = "DriveFromBorder" /\ cmd.vtype = "Bus")
              /\ req.can_use_bike_lanes <=>
                    (cmd.kind = "Bike"
                     \/ (cmd.kind = "DriveFromBorder" /\ cmd.vtype = "Bike"))
              /\ cmd.kind \in {"Walk", "Drive"} =>
                    ~req.can_use_bus_lanes /\ ~req.can_use_bike_lanes

\* the request of a bus entering at a border has been derived: bus lanes
\* allowed, bike lanes not
C25_Witness ==
    /\ last.op = "get_pathfinding_request"
    /\ popped.cmds[1].kind = "DriveFromBorder"
    /\ popped.cmds[1].vtype = "Bus"
    /\ popped.requests[1].can_use_bus_lanes
    /\ ~popped.requests[1].can_use_bike_lanes

\* C26: seed_bus_route takes, for every start of the route, one fresh CarID
\* and makes one trip of the single leg ServeBusRoute; the bus is bound to its
\* trip, registered with the transit engine and returned exactly when
\* start_car_on_lane took it; otherwise its trip stays, bound to no agent,
\* and its id is not returned
C26_SeedBusRoute ==
    [][(last.op # "seed_bus_route" /\ last'.op = "seed_bus_route") =>
          LET n == Len(RouteStops)
              id(i) == car_id_counter + i - 1
              trip(i) == Len(trips) + i - 1
              started(i) == \E c \in driving' : c.car = id(i) /\ c.trip = trip(i)
              returned == {i \in 1..n : id(i) \in Range(last'.results)}
          IN  /\ car_id_counter' = car_id_counter + n
              /\ Len(trips') = Len(trips) + n
              /\ \A i \in 1..Len(trips) : trips'[i] = trips[i]
              /\ Len(last'.results) = Cardinality(returned)
              /\ \A i \in 1..Len(last'.results) :
                    last'.results[i] \in {id(k) : k \in 1..n}
              /\ \A i \in 1..n :
                    /\ id(i) \notin Range(car_ids)
                    /\ \A c \in driving : c.car # id(i)
                    /\ trips'[trip(i) + 1].legs = <<LegServeBusRoute(id(i))>>
                    /\ trips'[trip(i) + 1].ped = None
                    /\ started(i) =>
                          /\ agent_to_trip(active_trip_mode', Car(id(i))) = trip(i)
                          /\ id(i) \in transit'.buses
                          /\ i \in returned
                    /\ ~started(i) =>
                          /\ \A e \in active_trip_mode' :
                                e[1] # Car(id(i)) /\ e[2] # trip(i)
                          /\ id(i) \notin transit'.buses
                          /\ i \notin returned]_vars

\* seed_bus_route has returned: the bus of the first start found no room and
\* left its trip bound to no agent, the bus of the second start drives
C26_Witness ==
    /\ last.op = "seed_bus_route"
    /\ last.results = <<1>>
    /\ transit.buses = {1}
    /\ \E c \in driving : c.car = 1 /\ c.trip = 1
    /\ Len(trips) = 2
    /\ trips[1].legs = <<LegServeBusRoute(0)>>
    /\ \A e \in active_trip_mode : e[2] # 0

\* C27: the WorldView that the intersection step reads is made empty when the
\* step starts, is written by the driving step (cars only) and by
\* populate_view (pedestrians only), which runs before the walking step, and
\* by no later sub-step; so its pedestrians are those of before the walking
\* moves of this tick, and nothing of an earlier tick is in it
C27_WorldViewOfTheTick ==
    [][/\ (pc = "idle" /\ pc' # "idle") => view' = WorldViewNew
       /\ view' # view => pc \in {"idle", "driving", "populate_view"}
       /\ pc = "driving" => view'.peds = view.peds
       /\ (pc = "populate_view" /\ pc' # pc) =>
             /\ view'.cars = view.cars
             /\ view'.peds = walking
             /\ "driving" \in Range(trace)
             /\ "walking" \notin Range(trace)
       /\ (pc = "intersections" /\ pc' # pc) =>
             /\ view' = view
             /\ \E i, j \in 1..Len(trace) :
                   i < j /\ trace[i] = "populate_view" /\ trace[j] = "walking"
             /\ \A p \in walking : \E q \in view.peds : q.ped = p.ped]_vars

\* the intersection step is about to read the view in the second tick or a
\* later one: a pedestrian of the view has finished its walk in this tick and
\* is gone from the walking engine, the view still has it
C27_Witness ==
    /\ pc = "intersections"
    /\ panic = "none"
    /\ time > 0
    /\ \E q \in view.peds : \A p \in walking : p.ped # q.ped

\* the roads at most k hops from road `start`, every hop to a road of the
\* neighborhood
RECURSIVE within_hops(_, _, _)
within_hops(k, start, neighborhoods_roads) ==
    IF k = 0 THEN {start}
    ELSE LET near == within_hops(k - 1, start, neighborhoods_roads)
         IN  near \cup {n \in neighborhoods_roads :
                           \E r \in near : n \in Range(get_next_roads(r))}

\* the number of hops from `start` to road r, which can be reached
hops_to(r, start, neighborhoods_roads) ==
    CHOOSE k \in 0..Cardinality(Roads) :
        /\ r \in within_hops(k, start, neighborhoods_roads)
        /\ \A j \in 0..(k - 1) : r \notin within_hops(j, start, neighborhoods_roads)

C30_BaseRngDraws ==
    (last.op = "seed_parked_cars" /\ panic # "seed_parked_cars: add_parked_car") =>
        LET neighborhoods_roads == last.args[1]
            owner_buildings == last.args[2]
            samples == last.args[3]
        IN  last.results[1] = Cardinality(neighborhoods_roads)
                              + Len(owner_buildings) + Sum(samples)

\* seed_parked_cars has returned: two cars were sampled for the buildings,
\* no spot was found for either, and the base RNG was drawn from as often as
\* if they had been found
C30_Witness ==
    /\ last.op = "seed_parked_cars"
    /\ panic = "none"
    /\ Sum(last.args[3]) = 2
    /\ last.results[3] = 0
    /\ last.results[1] = Cardinality(last.args[1]) + Len(last.args[2]) + 2

\* a command that only a trip transition builds: the callers' start_trip_*
\* enqueue walks from a building and vehicles at a border, the transitions
\* walks from a parking spot, a bike rack or a bus stop, drives and bike rides
from_transition(c) ==
    \/ c.kind \in {"Drive", "Bike"}
    \/ c.kind = "Walk" /\ c.start.kind # "Building"

\* C31: a command enqueued by a trip-transition handler during the step at
\* tick t has at = t + 1; Spawner::step pops it in the step of tick t + 1 and
\* in no other: whenever Spawner::step(now) returns, the commands of the
\* transitions that it has popped are those of the tick before, and none of
\* the transitions' commands stays in the queue
C31_TransitionCommandsPoppedNextTick ==
    [][/\ (pc \in {"driving_outcomes", "walking_outcomes", "transit"} /\ pc' # pc) =>
            \A c \in enqueued_now : from_transition(c) /\ c.at = time + 1
       /\ (pc = "idle" /\ pc' = "idle") =>
            \A c \in enqueued_now : ~from_transition(c)
       /\ (pc = "spawner" /\ pc' # pc) =>
            /\ \A c \in Range(popped'.cmds) : c.at = time
            /\ \A c \in Range(commands) :
                  from_transition(c) => /\ c.at = time
                                        /\ c \in Range(popped'.cmds)
                                        /\ c \notin Range(commands')]_vars

\* C32: the queue never holds two commands of one trip. A command enqueued by
\* start_trip_* is the first of a trip made in the same call; a command
\* enqueued during a step is for a trip that exists, whose front leg has just
\* been dropped and none of whose commands is waiting
C32_OneCommandPerTrip ==
    /\ [](\A i, j \in 1..Len(commands) :
             commands[i].trip = commands[j].trip => i = j)
    /\ [][\A c \in enqueued_now :
             /\ \A d \in Range(commands) : d.trip # c.trip
             /\ \A d \in enqueued_now : d.trip = c.trip => d = c
             /\ pc = "idle" => /\ c.trip = Len(trips)
                                /\ Len(trips') = Len(trips) + 1
             /\ pc # "idle" => /\ c.trip < Len(trips)
                                /\ trips'[c.trip + 1].legs
                                     = Tail(trips[c.trip + 1].legs)]_vars

\* between two steps the queue holds the command of a trip that has not begun
\* and the second command of another trip, whose first leg was completed in
\* the step before
C32_Witness ==
    /\ pc = "idle" /\ panic = "none" /\ time > 0
    /\ \E c, d \in Range(commands) :
          /\ c.trip # d.trip
          /\ from_transition(c) /\ c.at = time
          /\ Len(trips[c.trip + 1].legs) = 1
          /\ ~from_transition(d)

\* the trip of the i-th pedestrian that the walking step returned as having
\* reached a parking spot
trip_reaching_parking(i) ==
    agent_to_trip(active_trip_mode, Ped(outcome.reached_parking[i][1]))

\* C33: when the walking step returns a pedestrian at a parking spot, the leg
\* behind the walk of its trip is a Drive of a car that the inventory still
\* holds at that spot, so that get_car_at_spot(spot).unwrap() does not fail;
\* the loop over reached_parking returns, and the Drive command it enqueues
\* for the trip carries the parked car of that leg
C33_CarStillAtItsSpot ==
    /\ [](At("walking_outcomes") =>
            \A i \in 1..Len(outcome.reached_parking) :
               LET spot == outcome.reached_parking[i][2]
                   trip == trip_reaching_parking(i)
               IN  /\ trip # None
                   /\ Len(trips[trip + 1].legs) >= 2
                   /\ trips[trip + 1].legs[2].kind = "Drive"
                   /\ trips[trip + 1].legs[2].parked.spot = spot
                   /\ get_car_at_spot(parked_cars, spot) # NoParkedCar
                   /\ get_car_at_spot(parked_cars, spot)
                        = trips[trip + 1].legs[2].parked)
    /\ [][(At("walking_outcomes") /\ outcome.reached_parking # <<>>) =>
            /\ panic' = "none"
            /\ pc' # pc
            /\ \A i \in 1..Len(outcome.reached_parking) :
                  \E c \in enqueued_now :
                     /\ c.trip = trip_reaching_parking(i)
                     /\ c.kind = "Drive"
                     /\ c.parked = trips[c.trip + 1].legs[2].parked
                     /\ c.parked = front_leg(trips', c.trip).parked
                     /\ c.parked \in parked_cars']_vars

\* two cars are parked on the lane; the pedestrian of a trip has reached the
\* second one, and the Drive command enqueued for the trip carries that car
C33_Witness ==
    /\ pc = "transit" /\ panic = "none"
    /\ Len(outcome.reached_parking) = 1
    /\ outcome.reached_parking[1][2] = <<2, 1>>
    /\ Cardinality(parked_cars) = 2
    /\ \E c \in Range(commands) :
          /\ c.kind = "Drive" /\ c.at = time + 1
          /\ c.parked.spot = <<2, 1>>
          /\ c.parked \in parked_cars
          /\ front_leg(trips, c.trip) = LegDrive(c.parked, c.goal)

\* C34: when seed_parked_cars computes owner_buildings.len() - new_cars for
\* its last message, new_cars is not greater than the number of owner
\* buildings, so that the unsigned subtraction neither aborts nor wraps
C34_NoUnderflowOfBuildingsLeft ==
    /\ panic # "seed_parked_cars: subtract with overflow"
    /\ (last.op = "seed_parked_cars" /\ panic = "none") =>
          last.results[3] <= Len(last.args[2])
====
